---------------------------- MODULE Spec2Model ----------------------------
(***************************************************************************)
(* The Sumeragi consensus loop of core/src/sumeragi (fault.rs, mod.rs).    *)
(* One peer = one record of `peers`: the SumeragiStateMachineData fields,  *)
(* the locals of run_sumeragi_main_loop, and the resources the consensus   *)
(* thread shares with the rest of the node (public WSV, block-sync         *)
(* mailbox, inbound channel, queue, block store).                          *)
(***************************************************************************)
EXTENDS Integers, Sequences, FiniteSets, TLC

VARIABLES
    peers,    \* [running peer -> its state record]
    now,      \* the monotonic clock read by Instant::now()
    expired,  \* transactions for which is_expired(tx_time_to_live) holds
    net       \* messages posted to the network and not yet handed to a peer

vars == <<peers, now, expired, net>>

-----------------------------------------------------------------------------
(* Bounds of the model *)

NumPeers == 5
MaxHeight == 2
MaxNow == 2
MaxAcc == 3
MaxPending == 1
NumTxs == 3
MaxTxsInBlock == 3

(* Configuration values (Configuration, mod.rs:107-117; Queue) *)
block_time == 1
commit_time == 1
gossip_period == 1
gossip_batch_size == 1
txs_in_block == 2
ChannelCapacity == 250

AllPeers == 1..NumPeers
Txs == 1..NumTxs
GenesisTx == NumTxs + 1

-----------------------------------------------------------------------------
(* Option<T> *)

None == <<>>
Some(x) == <<x>>
IsSome(o) == o # <<>>
Unwrap(o) == o[1]

Range(seq) == {seq[i] : i \in 1..Len(seq)}

RECURSIVE SortedSeq(_)
SortedSeq(S) ==
    IF S = {} THEN <<>>
    ELSE LET m == CHOOSE x \in S : \A y \in S : x <= y
         IN <<m>> \o SortedSeq(S \ {m})

RECURSIVE SumSeq(_)
SumSeq(seq) == IF seq = <<>> THEN 0 ELSE Head(seq) + SumSeq(Tail(seq))

-----------------------------------------------------------------------------
(* Hashes and signatures.  A hash is the canonical content it addresses    *)
(* (collision free); a signature verifies iff its payload is the hash of   *)
(* what it is attached to.                                                 *)

ZeroHash == <<>>

Sig(pk, payload) == [pk |-> pk, payload |-> payload]

Block(height, prev, proofs, txs, rejected, topo) ==
    [height |-> height, previous_block_hash |-> prev,
     view_change_proofs |-> proofs, transactions |-> txs,
     rejected_transactions |-> rejected,
     genesis_topology |-> topo, signatures |-> {}]

BlockHash(b) ==
    <<b.height, b.previous_block_hash, b.view_change_proofs,
      b.transactions, b.rejected_transactions, b.genesis_topology>>

is_genesis(b) == b.height = 1

verified_signatures(b) == {s \in b.signatures : s.payload = BlockHash(b)}

block_sign(b, pk) ==
    [b EXCEPT !.signatures = @ \cup {Sig(pk, BlockHash(b))}]

Signers(sigs) == {s.pk : s \in sigs}

-----------------------------------------------------------------------------
(* Topology (network_topology): an ordered peer list, the block it was     *)
(* built at and a view-change count.  Roles follow the position in         *)
(* sorted_peers: Leader, 2f validating peers, ProxyTail, observing peers.  *)

Rotate(seq, k) ==
    [i \in 1..Len(seq) |-> seq[((i - 1 + k) % Len(seq)) + 1]]

HashOffset(h) == IF h = ZeroHash THEN 0 ELSE h[1] + SumSeq(h[4])

topology_build(peer_set, at_block, v) ==
    LET base == SortedSeq(peer_set)
    IN [sorted_peers |-> Rotate(base, (v + HashOffset(at_block)) % Len(base)),
        at_block |-> at_block,
        view_change_count |-> v]

sorted_peers(t) == t.sorted_peers

max_faults(t) == (Len(t.sorted_peers) - 1) \div 3

min_votes_for_commit(t) == 2 * max_faults(t) + 1

is_consensus_required(t) == Len(t.sorted_peers) >= 4

leader(t) == t.sorted_peers[1]

ProxyTailIndex(t) ==
    IF Len(t.sorted_peers) = 1 THEN 1 ELSE 2 * max_faults(t) + 2

proxy_tail(t) == t.sorted_peers[ProxyTailIndex(t)]

validating_peers(t) ==
    SubSeq(t.sorted_peers, 2, ProxyTailIndex(t) - 1)

peers_set_a(t) ==
    IF Len(t.sorted_peers) = 1 THEN t.sorted_peers
    ELSE SubSeq(t.sorted_peers, 2, ProxyTailIndex(t))

Leader == "Leader"
ValidatingPeer == "ValidatingPeer"
ProxyTail == "ProxyTail"
ObservingPeer == "ObservingPeer"

role(t, peer) ==
    IF leader(t) = peer THEN Leader
    ELSE IF proxy_tail(t) = peer THEN ProxyTail
    ELSE IF peer \in Range(validating_peers(t)) THEN ValidatingPeer
    ELSE ObservingPeer

RolePeers(t, r) == {p \in Range(t.sorted_peers) : role(t, p) = r}

filter_signatures_by_roles(t, roles, sigs) ==
    {s \in sigs : \E r \in roles : s.pk \in RolePeers(t, r)}

rebuild_with_new_view_change_count(t, v) ==
    topology_build(Range(t.sorted_peers), t.at_block, v)

refresh_at_new_block(t, hash) ==
    topology_build(Range(t.sorted_peers), hash, 0)

with_peers(t, peer_set) == topology_build(peer_set, t.at_block, 0)

-----------------------------------------------------------------------------
(* View-change proofs (view_change): Proof and the ProofChain operations.  *)

ProofPayload(hash, index) == <<hash, index>>

Proof(hash, index, sigs) ==
    [latest_block_hash |-> hash, view_change_index |-> index,
     signatures |-> sigs]

proof_sign(proof, pk) ==
    [proof EXCEPT !.signatures = @ \cup
        {Sig(pk, ProofPayload(proof.latest_block_hash, proof.view_change_index))}]

proof_verify(proof, peer_list, f) ==
    LET good == {s \in proof.signatures :
                    /\ s.payload = ProofPayload(proof.latest_block_hash,
                                                proof.view_change_index)
                    /\ s.pk \in peer_list}
    IN Cardinality(Signers(good)) >= 2 * f + 1

RECURSIVE VerifiedPrefix(_, _, _, _, _)
VerifiedPrefix(chain, i, peer_list, f, latest) ==
    IF i > Len(chain) THEN Len(chain)
    ELSE IF \/ chain[i].latest_block_hash # latest
            \/ chain[i].view_change_index # i - 1
            \/ ~proof_verify(chain[i], peer_list, f)
         THEN i - 1
         ELSE VerifiedPrefix(chain, i + 1, peer_list, f, latest)

verify_with_state(chain, peer_list, f, latest) ==
    VerifiedPrefix(chain, 1, peer_list, f, latest)

RECURSIVE TakeWhileHash(_, _)
TakeWhileHash(chain, latest) ==
    IF chain = <<>> \/ Head(chain).latest_block_hash # latest THEN <<>>
    ELSE <<Head(chain)>> \o TakeWhileHash(Tail(chain), latest)

prune(chain, latest) == TakeWhileHash(chain, latest)

insert_proof(chain, peer_list, f, latest, new_proof) ==
    IF new_proof.latest_block_hash # latest THEN chain
    ELSE LET n == verify_with_state(chain, peer_list, f, latest)
         IN IF new_proof.view_change_index # n THEN chain
            ELSE IF n < Len(chain)
                 THEN [chain EXCEPT ![n + 1].signatures =
                                        @ \cup new_proof.signatures]
                 ELSE Append(chain, new_proof)

RECURSIVE insert_proofs(_, _, _, _, _)
insert_proofs(chain, peer_list, f, latest, proofs) ==
    IF proofs = <<>> THEN chain
    ELSE insert_proofs(insert_proof(chain, peer_list, f, latest, Head(proofs)),
                       peer_list, f, latest, Tail(proofs))

-----------------------------------------------------------------------------
(* World state view, queue and transactions (external collaborators).      *)

Wsv(trusted) == [blocks |-> <<>>, trusted_peers_ids |-> trusted]

wsv_apply(wsv, block) == [wsv EXCEPT !.blocks = Append(@, block)]

wsv_latest_block_hash(wsv) ==
    IF wsv.blocks = <<>> THEN ZeroHash
    ELSE BlockHash(wsv.blocks[Len(wsv.blocks)])

is_in_blockchain(tx, wsv) ==
    \E i \in 1..Len(wsv.blocks) :
        tx \in Range(wsv.blocks[i].transactions)
                \cup Range(wsv.blocks[i].rejected_transactions)

is_expired(tx) == tx \in expired

(* check_signature_condition: transaction 2 still waits for signatures *)
check_signature_condition(tx, wsv) == tx # 2

(* Queue::from_configuration: txs_in_block is the queue's configuration *)
EmptyQueue == [queue |-> <<>>, txs |-> {}, txs_in_block |-> txs_in_block]

queue_push(q, tx, wsv) ==
    IF is_in_blockchain(tx, wsv) \/ tx \in q.txs THEN q
    ELSE [q EXCEPT !.queue = Append(@, tx), !.txs = @ \cup {tx}]

RECURSIVE queue_push_all(_, _, _)
queue_push_all(q, txs, wsv) ==
    IF txs = <<>> THEN q
    ELSE queue_push_all(queue_push(q, Head(txs), wsv), Tail(txs), wsv)

RECURSIVE pop_without_seen(_, _)
pop_without_seen(q, wsv) ==
    IF q.queue = <<>> THEN [tx |-> None, q |-> q]
    ELSE LET tx == Head(q.queue)
         IN IF is_in_blockchain(tx, wsv) \/ is_expired(tx)
            THEN pop_without_seen([q EXCEPT !.queue = Tail(@),
                                             !.txs = @ \ {tx}], wsv)
            ELSE [tx |-> Some(tx),
                  q |-> [q EXCEPT !.queue = Tail(@)]]

-----------------------------------------------------------------------------
(* Messages (message.rs) *)

BlockCreated(block) == [type |-> "BlockCreated", block |-> block]
BlockSigned(block) == [type |-> "BlockSigned", block |-> block]
BlockCommitted(block) == [type |-> "BlockCommitted", block |-> block]
TransactionForwarded(tx, from, proofs) ==
    [type |-> "TransactionForwarded", transaction |-> tx, peer |-> from,
     view_change_proofs |-> proofs]
ViewChangeSuggested(proofs) ==
    [type |-> "ViewChangeSuggested", proofs |-> proofs]
TransactionGossip(txs) == [type |-> "TransactionGossip", txs |-> txs]

Post(to, msg) == [to |-> to, msg |-> msg]

-----------------------------------------------------------------------------
(* State of one peer.                                                      *)

(* Sumeragi::from_configuration, mod.rs:81-125 *)
from_configuration(peer_id, trusted, genesis) ==
    [peer_id |-> peer_id,
     pc |-> "start",
     \* SumeragiStateMachineData
     genesis_network |-> genesis,
     latest_block_hash |-> ZeroHash,
     latest_block_height |-> 0,
     current_topology |-> topology_build(trusted, ZeroHash, 0),
     wsv |-> Wsv(trusted),
     transaction_cache |-> <<>>,
     \* shared with the rest of the node
     public_wsv |-> Wsv(trusted),
     latest_block_hash_for_use_by_block_sync |-> ZeroHash,
     incoming |-> <<>>,
     shutdown |-> FALSE,
     queue |-> EmptyQueue,
     kura |-> <<>>,
     gossip_batch_size |-> gossip_batch_size,
     \* locals of run_sumeragi_main_loop
     voting_block_option |-> None,
     block_signature_acc |-> <<>>,
     should_sleep |-> FALSE,
     has_sent_transactions |-> FALSE,
     sent_transaction_time |-> 0,
     last_sent_transaction_gossip_time |-> 0,
     instant_when_we_should_create_a_block |-> 0,
     instant_at_which_we_should_have_committed |-> 0,
     view_change_proof_chain |-> <<>>,
     old_view_change_index |-> 0,
     old_latest_block_height |-> 0]

(* What one pass of a handler produces besides the new state: the messages *)
(* it posted, the blocks it committed, the message it holds and the        *)
(* verified view-change index of the pass.                                 *)
Frame(st) ==
    [st |-> st, out |-> <<>>, commits |-> <<>>, received |-> None,
     maybe_incoming_message |-> None, current_view_change_index |-> 0,
     dispatch |-> None]

(* broadcast_msg_to, fault.rs:173-179 *)
broadcast_msg_to(fr, msg, ids) ==
    [fr EXCEPT !.out = @ \o [i \in 1..Len(ids) |-> Post(ids[i], msg)]]

(* broadcast_msg, fault.rs:181-183 *)
broadcast_msg(fr, msg, topology) ==
    broadcast_msg_to(fr, msg, sorted_peers(topology))

(* pipeline_time, fault.rs:223-225 *)
pipeline_time == block_time + commit_time

-----------------------------------------------------------------------------
(* Cache compaction, commit and view-change request (fault.rs:157-352).    *)

(* The read_index/write_index loop shared by cache_transaction             *)
(* (fault.rs:298-315) and the per-iteration prune (fault.rs:435-450):      *)
(* every slot is taken, kept entries are written back at write_index, and  *)
(* the vector is truncated to write_index.                                 *)
(* Seeded fault: a dropped entry is replaced by the last one (swap_remove) *)
RECURSIVE compact_by_swap_remove(_, _, _, _)
compact_by_swap_remove(cache, read_index, write_index, drop) ==
    IF read_index > Len(cache) THEN cache
    ELSE IF IsSome(cache[read_index]) /\ Unwrap(cache[read_index]) \notin drop
         THEN compact_by_swap_remove(cache, read_index + 1, write_index, drop)
         ELSE LET last == cache[Len(cache)]
                  short == SubSeq(cache, 1, Len(cache) - 1)
              IN compact_by_swap_remove(
                     IF read_index = Len(cache) THEN short
                     ELSE [short EXCEPT ![read_index] = last],
                     read_index, write_index, drop)

RECURSIVE Compact(_, _, _, _)
Compact(cache, read_index, write_index, drop) ==
    IF read_index > Len(cache) THEN SubSeq(cache, 1, write_index - 1)
    ELSE IF IsSome(cache[read_index])
         THEN LET tx == Unwrap(cache[read_index])
                  taken == [cache EXCEPT ![read_index] = None]
              IN IF tx \in drop
                 THEN Compact(taken, read_index + 1, write_index, drop)
                 ELSE Compact([taken EXCEPT ![write_index] = Some(tx)],
                              read_index + 1, write_index + 1, drop)
         ELSE Compact(cache, read_index + 1, write_index, drop)

CachedTxs(cache) == {Unwrap(cache[i]) : i \in {j \in 1..Len(cache) : IsSome(cache[j])}}

(* cache_transaction, fault.rs:293-316 *)
cache_transaction(st) ==
    [st EXCEPT !.transaction_cache =
        Compact(@, 1, 1,
                {tx \in CachedTxs(@) :
                    is_in_blockchain(tx, st.wsv) \/ is_expired(tx)})]

(* Seeded fault: the topology is rebuilt on every commit *)
update_network_topology_always(topology, wsv) ==
    with_peers(topology, wsv.trusted_peers_ids)

(* update_network_topology, fault.rs:160-171 *)
update_network_topology(topology, wsv) ==
    LET wsv_peers == wsv.trusted_peers_ids
        topology_peers == Range(sorted_peers(topology))
    IN IF topology_peers # wsv_peers THEN with_peers(topology, wsv_peers)
       ELSE topology

(* Seeded fault: the commit leaves the public mirror and the block-sync    *)
(* mailbox as they were                                                    *)
block_commit_private_only(fr, block) ==
    LET st == fr.st
        block_hash == BlockHash(block)
        wsv1 == wsv_apply(st.wsv, block)
        topo1 == refresh_at_new_block(st.current_topology, block_hash)
        st1 == [st EXCEPT
                  !.wsv = wsv1,
                  !.latest_block_height = block.height,
                  !.latest_block_hash = block_hash,
                  !.kura = Append(@, block),
                  !.current_topology = update_network_topology(topo1, wsv1)]
    IN [fr EXCEPT !.st = cache_transaction(st1),
                  !.commits = Append(@, block)]

(* block_commit, fault.rs:229-291 *)
block_commit(fr, block) ==
    LET st == fr.st
        block_hash == BlockHash(block)
        wsv1 == wsv_apply(st.wsv, block)
        topo1 == refresh_at_new_block(st.current_topology, block_hash)
        st1 == [st EXCEPT
                  !.wsv = wsv1,
                  !.public_wsv = wsv1,
                  !.latest_block_height = block.height,
                  !.latest_block_hash = block_hash,
                  !.latest_block_hash_for_use_by_block_sync = block_hash,
                  !.kura = Append(@, block),
                  !.current_topology = update_network_topology(topo1, wsv1)]
    IN [fr EXCEPT !.st = cache_transaction(st1),
                  !.commits = Append(@, block)]

(* Seeded fault: the suspect proof is sent without the peer's signature *)
request_view_change_unsigned(fr, current_view_change_index) ==
    LET st == fr.st
        suspect_proof == Proof(st.latest_block_hash,
                               current_view_change_index, {})
        chain == insert_proof(st.view_change_proof_chain,
                              Range(sorted_peers(st.current_topology)),
                              max_faults(st.current_topology),
                              st.latest_block_hash, suspect_proof)
    IN broadcast_msg([fr EXCEPT !.st.view_change_proof_chain = chain],
                     ViewChangeSuggested(chain), st.current_topology)

(* request_view_change, fault.rs:319-352 *)
request_view_change(fr, current_view_change_index) ==
    LET st == fr.st
        suspect_proof == proof_sign(Proof(st.latest_block_hash,
                                          current_view_change_index, {}),
                                    st.peer_id)
        chain == insert_proof(st.view_change_proof_chain,
                              Range(sorted_peers(st.current_topology)),
                              max_faults(st.current_topology),
                              st.latest_block_hash, suspect_proof)
    IN broadcast_msg([fr EXCEPT !.st.view_change_proof_chain = chain],
                     ViewChangeSuggested(chain), st.current_topology)

-----------------------------------------------------------------------------
(* Block lifecycle (block.rs): chain, validate, revalidate, check.         *)

RECURSIVE SelectSeq2(_, _, _)
SelectSeq2(seq, wsv, keep) ==
    IF seq = <<>> THEN <<>>
    ELSE IF check_signature_condition(Head(seq), wsv) = keep
         THEN <<Head(seq)>> \o SelectSeq2(Tail(seq), wsv, keep)
         ELSE SelectSeq2(Tail(seq), wsv, keep)

(* PendingBlock::chain followed by validate *)
chain_and_validate(txs, height, prev, proofs, wsv) ==
    Block(height + 1, prev, proofs, SelectSeq2(txs, wsv, TRUE),
          SelectSeq2(txs, wsv, FALSE), None)

(* PendingBlock::chain_first_with_genesis_topology followed by validate *)
chain_first_with_genesis_topology(txs, topology) ==
    Block(1, ZeroHash, <<>>, txs, <<>>, Some(topology))

revalidate(block, wsv) ==
    IF is_genesis(block) THEN block
    ELSE LET all == block.transactions \o block.rejected_transactions
         IN [block EXCEPT
               !.transactions = SelectSeq2(all, wsv, TRUE),
               !.rejected_transactions = SelectSeq2(all, wsv, FALSE)]

validation_check(block, wsv, latest_block_hash, block_height) ==
    /\ \A tx \in Range(block.transactions) : ~is_in_blockchain(tx, wsv)
    /\ block.previous_block_hash = latest_block_hash
    /\ block.height = block_height + 1

-----------------------------------------------------------------------------
(* run_sumeragi_main_loop, one iteration, section by section.              *)

(* Seeded fault: the fill loop tests `<=` and pulls one more *)
RECURSIVE pull_new_transactions_one_more(_)
pull_new_transactions_one_more(st) ==
    IF Len(st.transaction_cache) <= st.queue.txs_in_block
    THEN LET r == pop_without_seen(st.queue, st.wsv)
         IN IF ~IsSome(r.tx) THEN [st EXCEPT !.queue = r.q]
            ELSE pull_new_transactions_one_more(
                    [st EXCEPT !.queue = r.q,
                               !.transaction_cache = Append(@, r.tx)])
    ELSE st

(* fault.rs:452-459 *)
RECURSIVE pull_new_transactions(_)
pull_new_transactions(st) ==
    IF Len(st.transaction_cache) < st.queue.txs_in_block
    THEN LET r == pop_without_seen(st.queue, st.wsv)
         IN IF ~IsSome(r.tx) THEN [st EXCEPT !.queue = r.q]
            ELSE pull_new_transactions(
                    [st EXCEPT !.queue = r.q,
                               !.transaction_cache = Append(@, r.tx)])
    ELSE st

(* fault.rs:433-460 *)
refresh_transaction_cache(fr) ==
    LET cache == fr.st.transaction_cache
        pruned == Compact(cache, 1, 1,
                          {tx \in CachedTxs(cache) : is_expired(tx)})
    IN [fr EXCEPT !.st = pull_new_transactions(
                            [fr.st EXCEPT !.transaction_cache = pruned])]

(* fault.rs:463-469: push, then test the length *)
RECURSIVE GossipBatch(_, _, _, _)
GossipBatch(cache, batch_size, i, txs) ==
    IF i > Len(cache) THEN txs
    ELSE LET more == Append(txs, Unwrap(cache[i]))
         IN IF Len(more) >= batch_size THEN more
            ELSE GossipBatch(cache, batch_size, i + 1, more)

(* fault.rs:462-483 *)
gossip_transactions(fr) ==
    IF now - fr.st.last_sent_transaction_gossip_time > gossip_period
    THEN LET txs == GossipBatch(fr.st.transaction_cache,
                                fr.st.gossip_batch_size, 1, <<>>)
         IN IF txs # <<>>
            THEN broadcast_msg(
                    [fr EXCEPT !.st.last_sent_transaction_gossip_time = now],
                    TransactionGossip(txs), fr.st.current_topology)
            ELSE fr
    ELSE fr

(* fault.rs:485-494 *)
try_recv(fr) ==
    IF fr.st.incoming = <<>> THEN fr
    ELSE [fr EXCEPT !.st.incoming = Tail(@),
                    !.received = Some(Head(fr.st.incoming)),
                    !.maybe_incoming_message = Some(Head(fr.st.incoming))]

ForeignProofChain(msg) ==
    IF msg.type = "ViewChangeSuggested" THEN msg.proofs
    ELSE IF msg.type = "TransactionForwarded" THEN msg.view_change_proofs
    ELSE IF msg.type = "TransactionGossip" THEN <<>>
    ELSE msg.block.view_change_proofs

(* Seeded fault: only a ViewChangeSuggested has its proofs inserted *)
steal_message_suggestions_only(fr) ==
    IF ~IsSome(fr.maybe_incoming_message) THEN fr
    ELSE LET stolen_message == Unwrap(fr.maybe_incoming_message)
             st == fr.st
             kept == IF stolen_message.type \in
                          {"TransactionGossip", "ViewChangeSuggested"}
                     THEN None ELSE Some(stolen_message)
             q == IF stolen_message.type = "TransactionGossip"
                  THEN queue_push_all(st.queue, stolen_message.txs, st.wsv)
                  ELSE st.queue
             chain == IF stolen_message.type = "ViewChangeSuggested"
                      THEN insert_proofs(st.view_change_proof_chain,
                               Range(sorted_peers(st.current_topology)),
                               max_faults(st.current_topology),
                               st.latest_block_hash, stolen_message.proofs)
                      ELSE st.view_change_proof_chain
         IN [fr EXCEPT !.maybe_incoming_message = kept,
                       !.st.queue = q,
                       !.st.view_change_proof_chain = chain]

(* fault.rs:496-556 *)
steal_message(fr) ==
    IF ~IsSome(fr.maybe_incoming_message) THEN fr
    ELSE LET stolen_message == Unwrap(fr.maybe_incoming_message)
             st == fr.st
             kept == IF stolen_message.type \in
                          {"TransactionGossip", "ViewChangeSuggested"}
                     THEN None ELSE Some(stolen_message)
             q == IF stolen_message.type = "TransactionGossip"
                  THEN queue_push_all(st.queue, stolen_message.txs, st.wsv)
                  ELSE st.queue
             chain == insert_proofs(st.view_change_proof_chain,
                                    Range(sorted_peers(st.current_topology)),
                                    max_faults(st.current_topology),
                                    st.latest_block_hash,
                                    ForeignProofChain(stolen_message))
         IN [fr EXCEPT !.maybe_incoming_message = kept,
                       !.st.queue = q,
                       !.st.view_change_proof_chain = chain]

(* Seeded fault: the verified index is never taken below the recorded one *)
prune_and_verify_never_lower(fr) ==
    LET st == fr.st
        chain == prune(st.view_change_proof_chain, st.latest_block_hash)
        verified == verify_with_state(chain,
                                      Range(sorted_peers(st.current_topology)),
                                      max_faults(st.current_topology),
                                      st.latest_block_hash)
    IN [fr EXCEPT
          !.st.view_change_proof_chain = chain,
          !.current_view_change_index =
              IF verified < st.old_view_change_index
              THEN st.old_view_change_index ELSE verified]

(* fault.rs:558-568 *)
prune_and_verify(fr) ==
    LET st == fr.st
        chain == prune(st.view_change_proof_chain, st.latest_block_hash)
    IN [fr EXCEPT
          !.st.view_change_proof_chain = chain,
          !.current_view_change_index =
              verify_with_state(chain,
                                Range(sorted_peers(st.current_topology)),
                                max_faults(st.current_topology),
                                st.latest_block_hash)]

(* Seeded fault: a new height keeps the votes of the round it ends *)
height_change_reset_keeping_votes(fr) ==
    IF fr.st.old_latest_block_height # fr.st.latest_block_height
    THEN [fr EXCEPT
            !.st.has_sent_transactions = FALSE,
            !.st.instant_when_we_should_create_a_block = now + block_time,
            !.st.old_latest_block_height = fr.st.latest_block_height]
    ELSE fr

(* fault.rs:570-577 *)
height_change_reset(fr) ==
    IF fr.st.old_latest_block_height # fr.st.latest_block_height
    THEN [fr EXCEPT
            !.st.voting_block_option = None,
            !.st.block_signature_acc = <<>>,
            !.st.has_sent_transactions = FALSE,
            !.st.instant_when_we_should_create_a_block = now + block_time,
            !.st.old_latest_block_height = fr.st.latest_block_height]
    ELSE fr

(* Seeded fault: a view change keeps the votes of the round it ends *)
view_change_reset_keeping_votes(fr) ==
    IF fr.current_view_change_index # fr.st.old_view_change_index
    THEN [fr EXCEPT
            !.st.current_topology =
                rebuild_with_new_view_change_count(@,
                    fr.current_view_change_index),
            !.st.has_sent_transactions = FALSE,
            !.st.old_view_change_index = fr.current_view_change_index]
    ELSE fr

(* fault.rs:578-591 *)
view_change_reset(fr) ==
    IF fr.current_view_change_index # fr.st.old_view_change_index
    THEN [fr EXCEPT
            !.st.current_topology =
                rebuild_with_new_view_change_count(@,
                    fr.current_view_change_index),
            !.st.voting_block_option = None,
            !.st.block_signature_acc = <<>>,
            !.st.has_sent_transactions = FALSE,
            !.st.old_view_change_index = fr.current_view_change_index]
    ELSE fr

(* Seeded fault: the probe forwards without check_signature_condition *)
liveness_probe_unchecked(fr, pick) ==
    LET st == fr.st
    IN IF role(st.current_topology, st.peer_id) = Leader THEN fr
       ELSE LET forwarded ==
                    IF Len(st.transaction_cache) > 0 /\ ~st.has_sent_transactions
                    THEN LET tx == Unwrap(st.transaction_cache[pick])
                         IN [fr EXCEPT
                               !.out = Append(@,
                                   Post(leader(st.current_topology),
                                        TransactionForwarded(tx, st.peer_id,
                                            st.view_change_proof_chain))),
                               !.st.has_sent_transactions = TRUE,
                               !.st.sent_transaction_time = now]
                    ELSE fr
            IN IF /\ forwarded.st.has_sent_transactions
                  /\ now - forwarded.st.sent_transaction_time > pipeline_time
               THEN [request_view_change(forwarded,
                                         fr.current_view_change_index)
                        EXCEPT !.st.sent_transaction_time = now]
               ELSE forwarded

(* fault.rs:593-640; `pick` is the slot drawn by choose() *)
liveness_probe(fr, pick) ==
    LET st == fr.st
    IN IF role(st.current_topology, st.peer_id) = Leader THEN fr
       ELSE LET forwarded ==
                    IF Len(st.transaction_cache) > 0 /\ ~st.has_sent_transactions
                    THEN LET tx == Unwrap(st.transaction_cache[pick])
                         IN IF check_signature_condition(tx, st.wsv)
                            THEN [fr EXCEPT
                                    !.out = Append(@,
                                        Post(leader(st.current_topology),
                                             TransactionForwarded(tx, st.peer_id,
                                                 st.view_change_proof_chain))),
                                    !.st.has_sent_transactions = TRUE,
                                    !.st.sent_transaction_time = now]
                            ELSE fr
                    ELSE fr
            IN IF /\ forwarded.st.has_sent_transactions
                  /\ now - forwarded.st.sent_transaction_time > pipeline_time
               THEN [request_view_change(forwarded,
                                         fr.current_view_change_index)
                        EXCEPT !.st.sent_transaction_time = now]
               ELSE forwarded

AllRoles == {ValidatingPeer, Leader, ProxyTail}

(* Seeded fault: the handler reads the message and leaves it in place *)
take_message_peeking(fr) == fr

(* Option::take at the head of every role handler, fault.rs:644-957 *)
take_message(fr) == [fr EXCEPT !.maybe_incoming_message = None]

(* fault.rs:642-684 *)
observing_peer(fr) ==
    IF IsSome(fr.maybe_incoming_message)
    THEN LET incoming_message == Unwrap(fr.maybe_incoming_message)
             taken == take_message(fr)
         IN IF incoming_message.type = "BlockCommitted"
            THEN LET block == revalidate(incoming_message.block, fr.st.wsv)
                     network_topology == fr.st.current_topology
                     verified == verified_signatures(block)
                     valid_signatures ==
                         filter_signatures_by_roles(network_topology,
                                                    AllRoles, verified)
                     proxy_tail_signatures ==
                         filter_signatures_by_roles(network_topology,
                                                    {ProxyTail}, verified)
                 IN IF /\ Cardinality(valid_signatures)
                            >= min_votes_for_commit(network_topology)
                       /\ Cardinality(proxy_tail_signatures) = 1
                       /\ fr.st.latest_block_hash = block.previous_block_hash
                    THEN block_commit(taken, block)
                    ELSE taken
            ELSE taken
    ELSE [fr EXCEPT !.st.should_sleep = TRUE]

(* fault.rs:686-734 *)
leader_handle_message(fr) ==
    IF IsSome(fr.maybe_incoming_message)
    THEN LET msg == Unwrap(fr.maybe_incoming_message)
             taken == take_message(fr)
         IN IF msg.type = "TransactionForwarded"
            THEN [taken EXCEPT !.st.queue =
                                  queue_push(@, msg.transaction, fr.st.wsv)]
            ELSE IF msg.type = "BlockCommitted"
            THEN LET block == msg.block
                     network_topology == fr.st.current_topology
                     verified == verified_signatures(block)
                     valid_signatures ==
                         filter_signatures_by_roles(network_topology,
                                                    AllRoles, verified)
                     proxy_tail_signatures ==
                         filter_signatures_by_roles(network_topology,
                                                    {ProxyTail}, verified)
                 IN IF /\ Cardinality(valid_signatures)
                            >= min_votes_for_commit(network_topology)
                       /\ Cardinality(proxy_tail_signatures) = 1
                       /\ fr.st.latest_block_hash = block.previous_block_hash
                    THEN block_commit(taken, block)
                    ELSE taken
            ELSE taken
    ELSE [fr EXCEPT !.st.should_sleep = TRUE]

(* Seeded fault: the leader of a single-peer network waits for votes *)
leader_create_block_waits_for_votes(fr) ==
    LET st == fr.st
        transactions == [i \in 1..Len(st.transaction_cache) |->
                            Unwrap(st.transaction_cache[i])]
        block == chain_and_validate(transactions, st.latest_block_height,
                                    st.latest_block_hash,
                                    st.view_change_proof_chain, st.wsv)
        signed_block == block_sign(block, st.peer_id)
    IN broadcast_msg_to(
           [fr EXCEPT
              !.st.voting_block_option = Some(signed_block),
              !.st.instant_at_which_we_should_have_committed =
                  now + commit_time],
           BlockCreated(signed_block),
           peers_set_a(st.current_topology))

(* fault.rs:744-802 *)
leader_create_block(fr) ==
    LET st == fr.st
        transactions == [i \in 1..Len(st.transaction_cache) |->
                            Unwrap(st.transaction_cache[i])]
        block == chain_and_validate(transactions, st.latest_block_height,
                                    st.latest_block_hash,
                                    st.view_change_proof_chain, st.wsv)
        signed_block == block_sign(block, st.peer_id)
    IN IF ~is_consensus_required(st.current_topology)
       THEN LET sent == broadcast_msg(fr, BlockCommitted(signed_block),
                                      st.current_topology)
                done == block_commit(sent, signed_block)
            IN [done EXCEPT !.st.has_sent_transactions = FALSE,
                            !.st.voting_block_option = None,
                            !.st.old_view_change_index = 0,
                            !.st.view_change_proof_chain = <<>>]
       ELSE broadcast_msg_to(
                [fr EXCEPT
                   !.st.voting_block_option = Some(signed_block),
                   !.st.instant_at_which_we_should_have_committed =
                       now + commit_time],
                BlockCreated(signed_block),
                peers_set_a(st.current_topology))

(* Seeded fault: the Leader does not wait for the block-creation deadline *)
leader_round_without_deadline(fr) ==
    LET st == fr.st
    IN IF ~IsSome(st.voting_block_option)
       THEN IF st.transaction_cache = <<>>
            THEN [fr EXCEPT !.st.instant_when_we_should_create_a_block =
                                now + block_time]
            ELSE leader_create_block(fr)
       ELSE IF now > st.instant_at_which_we_should_have_committed
            THEN [request_view_change(fr, fr.current_view_change_index)
                    EXCEPT !.st.instant_at_which_we_should_have_committed =
                               @ + commit_time]
            ELSE fr

(* Seeded fault: the commit deadline is re-armed from the current time *)
leader_round_rearmed_from_now(fr) ==
    LET st == fr.st
    IN IF ~IsSome(st.voting_block_option)
       THEN IF st.transaction_cache = <<>>
            THEN [fr EXCEPT !.st.instant_when_we_should_create_a_block =
                                now + block_time]
            ELSE IF \/ now > st.instant_when_we_should_create_a_block
                    \/ Len(st.transaction_cache) >= st.queue.txs_in_block
                 THEN leader_create_block(fr)
                 ELSE fr
       ELSE IF now > st.instant_at_which_we_should_have_committed
            THEN [request_view_change(fr, fr.current_view_change_index)
                    EXCEPT !.st.instant_at_which_we_should_have_committed =
                               now + commit_time]
            ELSE fr

(* fault.rs:736-813 *)
leader_round(fr) ==
    LET st == fr.st
    IN IF ~IsSome(st.voting_block_option)
       THEN IF st.transaction_cache = <<>>
            THEN [fr EXCEPT !.st.instant_when_we_should_create_a_block =
                                now + block_time]
            ELSE IF \/ now > st.instant_when_we_should_create_a_block
                    \/ Len(st.transaction_cache) >= st.queue.txs_in_block
                 THEN leader_create_block(fr)
                 ELSE fr
       ELSE IF now > st.instant_at_which_we_should_have_committed
            THEN [request_view_change(fr, fr.current_view_change_index)
                    EXCEPT !.st.instant_at_which_we_should_have_committed =
                               @ + commit_time]
            ELSE fr

(* fault.rs:685-813 *)
leader_peer(fr) == leader_round(leader_handle_message(fr))

BlockViewChangeIndex(st, block) ==
    verify_with_state(block.view_change_proofs,
                      Range(sorted_peers(st.current_topology)),
                      max_faults(st.current_topology),
                      st.latest_block_hash)

(* Signatures in the order the block's container yields them *)
SigSeq(sigs) ==
    LET keys == SortedSeq(Signers(sigs))
    IN [i \in 1..Len(keys) |-> CHOOSE s \in sigs : s.pk = keys[i]]

(* Seeded fault: the Leader's signature is not asked for *)
validating_peer_block_created_any_signer(fr, received_block) ==
    LET st == fr.st
    IN IF IsSome(st.voting_block_option) THEN fr
       ELSE LET block == revalidate(received_block, st.wsv)
                voted ==
                    IF validation_check(block, st.wsv, st.latest_block_hash,
                                        st.latest_block_height)
                    THEN [fr EXCEPT !.out = Append(@,
                            Post(proxy_tail(st.current_topology),
                                 BlockSigned(block_sign(block, st.peer_id))))]
                    ELSE fr
            IN [voted EXCEPT !.st.voting_block_option = Some(block)]

(* fault.rs:819-927 *)
validating_peer_block_created(fr, received_block) ==
    LET st == fr.st
    IN IF IsSome(st.voting_block_option) THEN fr
       ELSE LET block == revalidate(received_block, st.wsv)
                topology ==
                    IF /\ is_genesis(block)
                       /\ st.latest_block_height = 0
                       /\ IsSome(block.genesis_topology)
                    THEN Unwrap(block.genesis_topology)
                    ELSE st.current_topology
                adopted == [fr EXCEPT !.st.current_topology = topology]
            IN IF filter_signatures_by_roles(topology, {Leader},
                                             verified_signatures(block)) = {}
               THEN adopted
               ELSE LET voted ==
                            IF validation_check(block, st.wsv,
                                                st.latest_block_hash,
                                                st.latest_block_height)
                            THEN [adopted EXCEPT !.out = Append(@,
                                    Post(proxy_tail(topology),
                                         BlockSigned(block_sign(block,
                                                                st.peer_id))))]
                            ELSE adopted
                    IN [voted EXCEPT !.st.voting_block_option = Some(block)]

(* Seeded fault: the quorum comparison is off by one *)
validating_peer_block_committed_short_quorum(fr, block) ==
    LET st == fr.st
        valid_signatures ==
            filter_signatures_by_roles(st.current_topology, AllRoles,
                                       verified_signatures(block))
    IN IF /\ Cardinality(valid_signatures) + 1
               >= min_votes_for_commit(st.current_topology)
          /\ st.latest_block_hash = block.previous_block_hash
       THEN block_commit(fr, block)
       ELSE fr

(* Seeded fault: the previous-hash comparison is missing *)
validating_peer_block_committed_any_parent(fr, block) ==
    LET st == fr.st
        valid_signatures ==
            filter_signatures_by_roles(st.current_topology, AllRoles,
                                       verified_signatures(block))
    IN IF Cardinality(valid_signatures)
               >= min_votes_for_commit(st.current_topology)
       THEN block_commit(fr, block)
       ELSE fr

(* Seeded fault: a validating peer relays the BlockCommitted it commits *)
validating_peer_block_committed_relayed(fr, block) ==
    LET st == fr.st
        valid_signatures ==
            filter_signatures_by_roles(st.current_topology, AllRoles,
                                       verified_signatures(block))
    IN IF /\ Cardinality(valid_signatures)
               >= min_votes_for_commit(st.current_topology)
          /\ st.latest_block_hash = block.previous_block_hash
       THEN block_commit(broadcast_msg(fr, BlockCommitted(block),
                                       st.current_topology), block)
       ELSE fr

(* fault.rs:928-946 *)
validating_peer_block_committed(fr, block) ==
    LET st == fr.st
        valid_signatures ==
            filter_signatures_by_roles(st.current_topology, AllRoles,
                                       verified_signatures(block))
    IN IF /\ Cardinality(valid_signatures)
               >= min_votes_for_commit(st.current_topology)
          /\ st.latest_block_hash = block.previous_block_hash
       THEN block_commit(fr, block)
       ELSE fr

(* Seeded fault: a BlockCreated replaces the voting block already held *)
validating_peer_overwriting(fr) ==
    IF IsSome(fr.maybe_incoming_message)
    THEN LET incoming_message == Unwrap(fr.maybe_incoming_message)
             taken == take_message(fr)
         IN IF incoming_message.type = "BlockCreated"
            THEN validating_peer_block_created(
                    [taken EXCEPT !.st.voting_block_option = None],
                    incoming_message.block)
            ELSE IF incoming_message.type = "BlockCommitted"
            THEN validating_peer_block_committed(taken, incoming_message.block)
            ELSE taken
    ELSE [fr EXCEPT !.st.should_sleep = TRUE]

(* fault.rs:814-954 *)
validating_peer(fr) ==
    IF IsSome(fr.maybe_incoming_message)
    THEN LET incoming_message == Unwrap(fr.maybe_incoming_message)
             taken == take_message(fr)
         IN IF incoming_message.type = "BlockCreated"
            THEN validating_peer_block_created(taken, incoming_message.block)
            ELSE IF incoming_message.type = "BlockCommitted"
            THEN validating_peer_block_committed(taken, incoming_message.block)
            ELSE taken
    ELSE [fr EXCEPT !.st.should_sleep = TRUE]

AccPush(acc, hash, sigs) ==
    acc \o [i \in 1..Len(SigSeq(sigs)) |-> <<hash, SigSeq(sigs)[i]>>]

(* fault.rs:960-1038; `skip` tells that the iteration ended by `continue` *)
proxy_tail_block_created(fr, received_block) ==
    LET st == fr.st
    IN IF IsSome(st.voting_block_option) THEN [fr |-> fr, skip |-> TRUE]
       ELSE IF is_genesis(received_block) THEN [fr |-> fr, skip |-> TRUE]
       ELSE IF filter_signatures_by_roles(st.current_topology, {Leader},
                        verified_signatures(received_block)) = {}
       THEN [fr |-> fr, skip |-> TRUE]
       ELSE LET block == revalidate(received_block, st.wsv)
                valid_signatures ==
                    filter_signatures_by_roles(st.current_topology,
                        {ValidatingPeer, Leader}, verified_signatures(block))
            IN [fr |-> [fr EXCEPT
                          !.st.block_signature_acc =
                              AccPush(@, BlockHash(block), valid_signatures),
                          !.st.voting_block_option = Some(block),
                          !.st.instant_at_which_we_should_have_committed =
                              now + commit_time],
                skip |-> FALSE]

(* Seeded fault: a BlockSigned is dropped unless it matches a voting block *)
proxy_tail_block_signed_needs_block(fr, block) ==
    LET st == fr.st
        block_hash == BlockHash(block)
    IN IF \/ ~IsSome(st.voting_block_option)
          \/ block_hash # BlockHash(Unwrap(st.voting_block_option))
       THEN [fr |-> fr, skip |-> TRUE]
       ELSE LET valid_signatures ==
                    filter_signatures_by_roles(st.current_topology,
                        {ValidatingPeer, Leader}, verified_signatures(block))
            IN [fr |-> [fr EXCEPT !.st.block_signature_acc =
                                      AccPush(@, block_hash, valid_signatures)],
                skip |-> FALSE]

(* fault.rs:1039-1060 *)
proxy_tail_block_signed(fr, block) ==
    LET st == fr.st
        block_hash == BlockHash(block)
    IN IF /\ IsSome(st.voting_block_option)
          /\ block_hash # BlockHash(Unwrap(st.voting_block_option))
       THEN [fr |-> fr, skip |-> TRUE]
       ELSE LET valid_signatures ==
                    filter_signatures_by_roles(st.current_topology,
                        {ValidatingPeer, Leader}, verified_signatures(block))
            IN [fr |-> [fr EXCEPT !.st.block_signature_acc =
                                      AccPush(@, block_hash, valid_signatures)],
                skip |-> FALSE]

(* Seeded fault: the ProxyTail commits a BlockCommitted it receives, as a   *)
(* validating peer does                                                    *)
proxy_tail_handle_message_committing(fr) ==
    IF IsSome(fr.maybe_incoming_message)
    THEN LET incoming_message == Unwrap(fr.maybe_incoming_message)
             taken == take_message(fr)
         IN IF incoming_message.type = "BlockCreated"
            THEN proxy_tail_block_created(taken, incoming_message.block)
            ELSE IF incoming_message.type = "BlockSigned"
            THEN proxy_tail_block_signed(taken, incoming_message.block)
            ELSE IF incoming_message.type = "BlockCommitted"
            THEN [fr |-> validating_peer_block_committed(
                            taken, incoming_message.block),
                  skip |-> FALSE]
            ELSE [fr |-> taken, skip |-> FALSE]
    ELSE [fr |-> [fr EXCEPT !.st.should_sleep = TRUE], skip |-> FALSE]

(* fault.rs:956-1068 *)
proxy_tail_handle_message(fr) ==
    IF IsSome(fr.maybe_incoming_message)
    THEN LET incoming_message == Unwrap(fr.maybe_incoming_message)
             taken == take_message(fr)
         IN IF incoming_message.type = "BlockCreated"
            THEN proxy_tail_block_created(taken, incoming_message.block)
            ELSE IF incoming_message.type = "BlockSigned"
            THEN proxy_tail_block_signed(taken, incoming_message.block)
            ELSE [fr |-> taken, skip |-> FALSE]
    ELSE [fr |-> [fr EXCEPT !.st.should_sleep = TRUE], skip |-> FALSE]

(* Seeded fault: the accumulated signatures are not filtered by hash *)
signatures_of_any_block(acc, voting_block_hash) ==
    [k \in 1..Len(acc) |-> acc[k][2]]

(* fault.rs:1076-1081 *)
signatures_on_this_block(acc, voting_block_hash) ==
    LET idx == {i \in 1..Len(acc) : acc[i][1] = voting_block_hash}
        order == SortedSeq(idx)
    IN [k \in 1..Len(order) |-> acc[order[k]][2]]

IndexOfKey(validating, pk) ==
    IF \E i \in 1..Len(validating) : validating[i] = pk
    THEN CHOOSE i \in 1..Len(validating) :
            /\ validating[i] = pk
            /\ \A j \in 1..(i - 1) : validating[j] # pk
    ELSE 0

(* fault.rs:1083-1097: the double loop over signatures and set A *)
RECURSIVE CountVotes(_, _, _, _)
CountVotes(sigs, validating, peer_has_voted, tally) ==
    IF sigs = <<>> THEN tally
    ELSE LET i == IndexOfKey(validating, Head(sigs).pk)
         IN IF i # 0 /\ ~peer_has_voted[i]
            THEN CountVotes(Tail(sigs), validating,
                            [peer_has_voted EXCEPT ![i] = TRUE],
                            [vote_count |-> tally.vote_count + 1,
                             peer_signatures |->
                                 Append(tally.peer_signatures, Head(sigs))])
            ELSE CountVotes(Tail(sigs), validating, peer_has_voted, tally)

(* Seeded fault: every accumulated signature of set A counts as a vote *)
count_votes_every_signature(st) ==
    LET validating == peers_set_a(st.current_topology)
        voting_block_hash == BlockHash(Unwrap(st.voting_block_option))
        sigs == SelectSeq(signatures_on_this_block(st.block_signature_acc,
                                                   voting_block_hash),
                          LAMBDA sg : IndexOfKey(validating, sg.pk) # 0)
    IN [vote_count |-> Len(sigs) + 1, peer_signatures |-> sigs]

(* Seeded fault: the ProxyTail does not count its own vote *)
count_votes_without_own_vote(st) ==
    LET validating == peers_set_a(st.current_topology)
        voting_block_hash == BlockHash(Unwrap(st.voting_block_option))
    IN CountVotes(signatures_on_this_block(st.block_signature_acc,
                                           voting_block_hash),
                  validating,
                  [i \in 1..Len(validating) |-> FALSE],
                  [vote_count |-> 0, peer_signatures |-> <<>>])

(* fault.rs:1070-1099 *)
count_votes(st) ==
    LET validating == peers_set_a(st.current_topology)
        voting_block_hash == BlockHash(Unwrap(st.voting_block_option))
        counted == CountVotes(
                      signatures_on_this_block(st.block_signature_acc,
                                               voting_block_hash),
                      validating,
                      [i \in 1..Len(validating) |-> FALSE],
                      [vote_count |-> 0, peer_signatures |-> <<>>])
    IN [counted EXCEPT !.vote_count = @ + 1]

(* Seeded fault: the ProxyTail commits the block without signing it *)
proxy_tail_commit_unsigned(fr, peer_signatures) ==
    LET st == fr.st
        voting == Unwrap(st.voting_block_option)
        block == [voting EXCEPT !.signatures = Range(peer_signatures)]
        cleared == [fr EXCEPT !.st.voting_block_option = None]
    IN block_commit(broadcast_msg(cleared, BlockCommitted(block),
                                  st.current_topology),
                    block)

(* fault.rs:1100-1127 *)
proxy_tail_commit(fr, peer_signatures) ==
    LET st == fr.st
        voting == Unwrap(st.voting_block_option)
        block == block_sign([voting EXCEPT
                                !.signatures = Range(peer_signatures)],
                            st.peer_id)
        cleared == [fr EXCEPT !.st.voting_block_option = None]
    IN IF Cardinality(block.signatures)
            < min_votes_for_commit(st.current_topology)
       THEN [cleared EXCEPT !.st.pc = "panicked"]
       ELSE block_commit(broadcast_msg(cleared, BlockCommitted(block),
                                       st.current_topology),
                         block)

(* fault.rs:1070-1139 *)
proxy_tail_round(fr) ==
    IF ~IsSome(fr.st.voting_block_option) THEN fr
    ELSE LET tally == count_votes(fr.st)
             voted == IF tally.vote_count
                           >= min_votes_for_commit(fr.st.current_topology)
                      THEN proxy_tail_commit(fr, tally.peer_signatures)
                      ELSE fr
         IN IF voted.st.pc = "panicked" THEN voted
            ELSE IF now > voted.st.instant_at_which_we_should_have_committed
            THEN [request_view_change(voted, fr.current_view_change_index)
                    EXCEPT !.st.instant_at_which_we_should_have_committed =
                               @ + commit_time]
            ELSE voted

(* fault.rs:955-1140 *)
proxy_tail_peer(fr) ==
    LET handled == proxy_tail_handle_message(fr)
    IN IF handled.skip THEN handled.fr ELSE proxy_tail_round(handled.fr)

(* The frame as the role handlers find it: role, message and state *)
at_dispatch(fr) ==
    [fr EXCEPT !.dispatch =
        Some([role |-> role(fr.st.current_topology, fr.st.peer_id),
              msg |-> fr.maybe_incoming_message,
              st |-> fr.st])]

(* fault.rs:642-1140: dispatch on the role in the current topology *)
role_dispatch(fr) ==
    LET at == at_dispatch(fr)
        r == Unwrap(at.dispatch).role
    IN IF r = ObservingPeer THEN observing_peer(at)
       ELSE IF r = Leader THEN leader_peer(at)
       ELSE IF r = ValidatingPeer THEN validating_peer(at)
       ELSE proxy_tail_peer(at)

(* fault.rs:421-640: everything of one iteration before the role dispatch *)
before_dispatch(st, pick) ==
    LET woken == Frame([st EXCEPT !.should_sleep = FALSE])
        cached == refresh_transaction_cache(woken)
        gossiped == gossip_transactions(cached)
        stolen == steal_message(try_recv(gossiped))
        verified == prune_and_verify(stolen)
        reset == view_change_reset(height_change_reset(verified))
    IN liveness_probe(reset, pick)

(* fault.rs:415-1141: one iteration of the loop *)
main_loop_iteration(st, pick) == role_dispatch(before_dispatch(st, pick))

-----------------------------------------------------------------------------
(* Initialisation phase of run_sumeragi_main_loop (fault.rs:364-414) and   *)
(* the two genesis paths (fault.rs:1145-1273).                             *)

(* fault.rs:389-414: the assertions after init, then the loop's locals *)
enter_main_loop(fr) ==
    LET st == fr.st
    IN IF \/ st.latest_block_height < 1
          \/ st.latest_block_hash # wsv_latest_block_hash(st.wsv)
       THEN [fr EXCEPT !.st.pc = "panicked"]
       ELSE [fr EXCEPT
               !.st.pc = "main",
               !.st.voting_block_option = None,
               !.st.block_signature_acc = <<>>,
               !.st.should_sleep = FALSE,
               !.st.has_sent_transactions = FALSE,
               !.st.sent_transaction_time = now,
               !.st.last_sent_transaction_gossip_time = now,
               !.st.instant_when_we_should_create_a_block = now + block_time,
               !.st.instant_at_which_we_should_have_committed = now,
               !.st.view_change_proof_chain = <<>>,
               !.st.old_view_change_index = 0,
               !.st.old_latest_block_height = 0]

(* sumeragi_init_commit_genesis, fault.rs:1145-1196 *)
sumeragi_init_commit_genesis(fr, transactions) ==
    LET st == fr.st
    IN IF \/ st.latest_block_height # 0
          \/ st.latest_block_hash # ZeroHash
          \/ transactions = <<>>
       THEN [fr EXCEPT !.st.pc = "panicked"]
       ELSE LET block == chain_first_with_genesis_topology(transactions,
                                                          st.current_topology)
                signed_block == block_sign(block, st.peer_id)
            IN block_commit(broadcast_msg(fr, BlockCommitted(signed_block),
                                          st.current_topology),
                            signed_block)

(* fault.rs:364-400 and 1207-1219 *)
start_main_loop(st) ==
    IF st.latest_block_height # 0 /\ st.latest_block_hash # ZeroHash
    THEN enter_main_loop(Frame(st))
    ELSE IF IsSome(st.genesis_network)
    THEN LET taken == Frame([st EXCEPT !.genesis_network = None])
             done == sumeragi_init_commit_genesis(taken,
                                                  Unwrap(st.genesis_network))
         IN IF done.st.pc = "panicked" THEN done ELSE enter_main_loop(done)
    ELSE IF ~is_consensus_required(st.current_topology)
    THEN Frame([st EXCEPT !.pc = "panicked"])
    ELSE Frame([st EXCEPT !.pc = "listen",
                          !.latest_block_hash_for_use_by_block_sync = ZeroHash])

(* Seeded fault: the wait takes any BlockCommitted that is genesis, with or *)
(* without a genesis topology                                              *)
listen_for_genesis_without_topology(st) ==
    IF st.shutdown THEN enter_main_loop(Frame(st))
    ELSE LET fr == try_recv(Frame(st))
         IN IF ~IsSome(fr.received) THEN fr
            ELSE LET msg == Unwrap(fr.received)
                 IN IF msg.type = "BlockCommitted" /\ is_genesis(msg.block)
                    THEN enter_main_loop(
                            block_commit(
                                IF IsSome(msg.block.genesis_topology)
                                THEN [fr EXCEPT !.st.current_topology =
                                        Unwrap(msg.block.genesis_topology)]
                                ELSE fr,
                                msg.block))
                    ELSE fr

(* sumeragi_init_listen_for_genesis, one pass of its loop,                 *)
(* fault.rs:1221-1272                                                      *)
listen_for_genesis(st) ==
    IF st.shutdown THEN enter_main_loop(Frame(st))
    ELSE LET fr == try_recv(Frame(st))
         IN IF ~IsSome(fr.received) THEN fr
            ELSE LET msg == Unwrap(fr.received)
                 IN IF /\ msg.type = "BlockCommitted"
                       /\ is_genesis(msg.block)
                       /\ IsSome(msg.block.genesis_topology)
                    THEN enter_main_loop(
                            block_commit(
                                [fr EXCEPT !.st.current_topology =
                                    Unwrap(msg.block.genesis_topology)],
                                msg.block))
                    ELSE fr

-----------------------------------------------------------------------------
(* Messages the other peers (correct or not) may send to a peer in state   *)
(* st.  Every key but the peer's own is in the hands of the environment.   *)

(* Signatures the peer itself put on blocks it posted *)
PostedSignatures(pk) ==
    {s \in UNION {m.msg.block.signatures :
                    m \in {x \in net : x.msg.type \in
                              {"BlockCreated", "BlockSigned", "BlockCommitted"}}} :
        s.pk = pk}

(* The block signed by `keys`: any key of another peer, and the peer's own *)
(* key only where the peer has published that signature itself.            *)
EnvSign(block, keys, st) ==
    [block EXCEPT !.signatures =
        @ \cup {Sig(k, BlockHash(block)) : k \in keys \ {st.peer_id}}
          \cup {s \in PostedSignatures(st.peer_id) :
                    s.pk \in keys /\ s.payload = BlockHash(block)}]

UnknownKey == NumPeers + 1

QuorumProof(st, index) ==
    Proof(st.latest_block_hash, index,
          {Sig(k, ProofPayload(st.latest_block_hash, index)) :
              k \in Range(sorted_peers(st.current_topology)) \ {st.peer_id}})

SingleProof(st, index, k) ==
    Proof(st.latest_block_hash, index,
          {Sig(k, ProofPayload(st.latest_block_hash, index))})

EnvChain(st) == <<QuorumProof(st, 0)>>

EnvBlocks(st) ==
    LET h == st.latest_block_height
        H == st.latest_block_hash
    IN [good   |-> Block(h + 1, H, <<>>, <<1>>, <<>>, None),
        other  |-> Block(h + 1, H, <<>>, <<>>, <<2>>, None),
        viewed |-> Block(h + 1, H, EnvChain(st), <<1>>, <<>>, None),
        unval  |-> Block(h + 1, H, <<>>, <<2>>, <<>>, None),
        orphan |-> Block(h + 1, ZeroHash, <<>>, <<1>>, <<>>, None)]

EnvBlockMsgs(st) ==
    LET t == st.current_topology
        L == {leader(t)}
        P == {proxy_tail(t)}
        V == Range(validating_peers(t))
        V1 == {validating_peers(t)[1]}
        V2 == {validating_peers(t)[2]}
        b == EnvBlocks(st)
        forged == [b.good EXCEPT !.signatures =
                      {Sig(k, BlockHash(b.good)) : k \in (L \cup V) \ {st.peer_id}}
                      \cup {Sig(proxy_tail(t), ZeroHash)}]
        mine == IF IsSome(st.voting_block_option)
                THEN {BlockCommitted(EnvSign(Unwrap(st.voting_block_option),
                                             V \cup P, st)),
                      BlockCommitted(EnvSign(Unwrap(st.voting_block_option),
                                             L \cup V, st))}
                ELSE {}
    IN {BlockCreated(EnvSign(b[k], L, st)) : k \in DOMAIN b}
       \cup {BlockCreated(EnvSign(b.good, V1, st)),
             BlockCreated(EnvSign(b.good, L \cup V1, st))}
       \cup {BlockSigned(EnvSign(b.good, L \cup V1, st)),
             BlockSigned(EnvSign(b.good, V2, st)),
             BlockSigned(EnvSign(b.good, V1, st)),
             BlockSigned(EnvSign(b.other, L \cup V2, st)),
             BlockSigned(EnvSign(b.orphan, V, st))}
       \cup {BlockCommitted(EnvSign(b[k], L \cup V \cup P, st)) : k \in DOMAIN b}
       \cup {BlockCommitted(EnvSign(b.good, V \cup P, st)),
             BlockCommitted(EnvSign(b.good, L \cup V, st)),
             BlockCommitted(EnvSign(b.good, L \cup P, st)),
             BlockCommitted(EnvSign(b.good, L \cup P \cup {UnknownKey}, st)),
             BlockCommitted(forged)}
       \cup mine

EnvGenesisMsgs(st) ==
    LET members == Range(sorted_peers(st.current_topology))
        sender == CHOOSE k \in members : k # st.peer_id
        genesis(t) == block_sign(
                        chain_first_with_genesis_topology(<<GenesisTx>>, t),
                        sender)
    IN {BlockCommitted(genesis(topology_build(members, ZeroHash, 1))),
        BlockCommitted(EnvSign(Block(1, ZeroHash, <<>>, <<GenesisTx>>, <<>>,
                                     None), {sender}, st)),
        BlockCommitted(EnvSign(Block(2, ZeroHash, <<>>, <<1>>, <<>>, None),
                               {sender}, st))}

EnvOtherMsgs(st) ==
    LET t == st.current_topology
        others == Range(sorted_peers(t)) \ {st.peer_id}
        from == CHOOSE k \in others : TRUE
        k1 == CHOOSE k \in others : TRUE
    IN {TransactionForwarded(1, from, <<>>),
        TransactionForwarded(1, from, EnvChain(st)),
        TransactionGossip(<<1>>),
        ViewChangeSuggested(EnvChain(st)),
        ViewChangeSuggested(<<SingleProof(st, 0, k1)>>),
        ViewChangeSuggested(<<Proof(st.latest_block_hash, 0,
            {Sig(k, ProofPayload(st.latest_block_hash, 0)) :
                k \in {j \in others \ {k1} : \E i \in others \ {k1} : i > j}})>>)}

EnvMsgs(st) ==
    IF st.pc = "listen" THEN EnvGenesisMsgs(st)
    ELSE IF st.pc = "main" /\ st.latest_block_height < MaxHeight
    THEN EnvOtherMsgs(st) \cup EnvBlockMsgs(st)
    ELSE {}

AccGrowth(msg) ==
    IF msg.type \in {"BlockCreated", "BlockSigned"}
    THEN Cardinality(msg.block.signatures) ELSE 0

-----------------------------------------------------------------------------
(* Actions *)

Running == DOMAIN peers

Posted(p, fr) == {m \in Range(fr.out) : m.to # p}

Step(p, fr) ==
    /\ peers' = [peers EXCEPT ![p] = fr.st]
    /\ net' = net \cup Posted(p, fr)
    /\ UNCHANGED <<now, expired>>

(* the thread spawned by initialize_and_start_thread reaches the loop *)
Start(p) ==
    /\ peers[p].pc = "start"
    /\ Step(p, start_main_loop(peers[p]))

ListenForGenesis(p) ==
    /\ peers[p].pc = "listen"
    /\ Step(p, listen_for_genesis(peers[p]))

PickSlots(st) ==
    LET n == Len(refresh_transaction_cache(Frame(st)).st.transaction_cache)
    IN 1..(IF n = 0 THEN 1 ELSE n)

(* Seeded fault: the loop does not poll the shutdown signal *)
MainLoop_without_poll(p) ==
    /\ peers[p].pc = "main"
    /\ \E pick \in PickSlots(peers[p]) :
          Step(p, main_loop_iteration(peers[p], pick))

(* fault.rs:415-1141; the shutdown poll of fault.rs:416-419 comes first *)
MainLoop(p) ==
    /\ peers[p].pc = "main"
    /\ IF peers[p].shutdown
       THEN Step(p, Frame([peers[p] EXCEPT !.pc = "stopped"]))
       ELSE \E pick \in PickSlots(peers[p]) :
               Step(p, main_loop_iteration(peers[p], pick))

(* Seeded fault: the channel takes every message *)
try_send_unbounded(channel, msg) == Append(channel, msg)

(* try_send on the sync_channel(250) of mod.rs:98-99: a full channel       *)
(* returns an error and keeps what it holds                                *)
try_send(channel, msg) ==
    IF Len(channel) < ChannelCapacity THEN Append(channel, msg) ELSE channel

(* Sumeragi::incoming_message, mod.rs:287-298 *)
incoming_message(p, msg) ==
    peers' = [peers EXCEPT ![p].incoming = try_send(@, msg)]

ReceiveFrom(p, msgs) ==
    /\ Len(peers[p].incoming) < MaxPending
    /\ \E msg \in msgs :
          /\ Len(peers[p].block_signature_acc) + AccGrowth(msg) <= MaxAcc
          /\ incoming_message(p, msg)
    /\ UNCHANGED <<now, expired, net>>

Receive(p) == ReceiveFrom(p, EnvMsgs(peers[p]))

(* a client hands a transaction to the queue *)
SubmitTransaction(p, txs) ==
    /\ \E tx \in txs :
          peers' = [peers EXCEPT ![p].queue =
                       queue_push(@, tx, peers[p].public_wsv)]
    /\ UNCHANGED <<now, expired, net>>

Shutdown(p) ==
    /\ ~peers[p].shutdown
    /\ peers' = [peers EXCEPT ![p].shutdown = TRUE]
    /\ UNCHANGED <<now, expired, net>>

Tick(horizon) ==
    /\ now < horizon
    /\ now' = now + 1
    /\ UNCHANGED <<peers, expired, net>>

Expire ==
    /\ \E tx \in Txs : expired' = expired \cup {tx}
    /\ UNCHANGED <<peers, now, net>>

InitPeer(p, n, genesis) ==
    /\ peers = (p :> from_configuration(p, 1..n, genesis))
    /\ now = 0
    /\ expired = {}
    /\ net = {}

GenesisOptions == {None, Some(<<GenesisTx>>)}

(* One peer of a NumPeers network; the other peers are the environment. *)
Init ==
    \E p \in AllPeers : \E genesis \in GenesisOptions :
        InitPeer(p, NumPeers, genesis)

Next ==
    \/ \E p \in Running : Start(p)
    \/ \E p \in Running : ListenForGenesis(p)
    \/ \E p \in Running : MainLoop(p)
    \/ \E p \in Running : Receive(p)
    \/ \E p \in Running : SubmitTransaction(p, {1})

Spec == Init /\ [][Next]_vars

-----------------------------------------------------------------------------
(* The transaction pipeline: clients submit, transactions expire, the      *)
(* clock advances, and the other peers gossip transactions and commit      *)
(* blocks; in a network of one peer the leader commits on its own.         *)

PipelineMsgs(st) ==
    IF st.pc = "main" /\ st.latest_block_height < MaxHeight
    THEN {TransactionGossip(<<NumTxs, 1>>),
          BlockCommitted(EnvSign(EnvBlocks(st).good,
                                 Range(sorted_peers(st.current_topology)),
                                 st))}
    ELSE {}

InitPipeline ==
    \E n \in {1, NumPeers} : \E p \in 1..n :
        InitPeer(p, n, Some(<<GenesisTx>>))

NextPipeline ==
    \/ \E p \in Running : Start(p)
    \/ \E p \in Running : MainLoop(p)
    \/ \E p \in Running : ReceiveFrom(p, PipelineMsgs(peers[p]))
    \/ \E p \in Running : SubmitTransaction(p, Txs)
    \/ Tick(MaxNow)
    \/ Expire

SpecPipeline == InitPipeline /\ [][NextPipeline]_vars

-----------------------------------------------------------------------------
(* A network of correct peers and one faulty peer.  Every correct peer     *)
(* runs the loop; `net` keeps what was posted, and the network hands a     *)
(* posted block message to its addressee at any later time, or never;      *)
(* gossip, forwarded transactions and view-change suggestions between      *)
(* correct peers stay in transit.  The faulty peer signs with its own key  *)
(* only and reuses the signatures of the messages addressed to it.  Loop   *)
(* iterations take microseconds and the timers seconds: events from        *)
(* outside (deliveries, submissions, clock ticks) happen when every        *)
(* correct peer has worked off what it has.                                *)

NetMembers == 1..(NumPeers - 1)

GenesisBlock == chain_first_with_genesis_topology(
                    <<GenesisTx>>, topology_build(NetMembers, ZeroHash, 0))

(* the faulty peer is the leader of the first round *)
FaultyPeer ==
    leader(refresh_at_new_block(topology_build(NetMembers, ZeroHash, 0),
                                BlockHash(GenesisBlock)))

Correct == NetMembers \ {FaultyPeer}

GenesisPeer == CHOOSE p \in Correct : \A q \in Correct : p <= q

(* every queue holds the transaction a client has submitted to all peers *)
InitNet ==
    /\ peers = [p \in Correct |->
                  [from_configuration(p, NetMembers,
                      IF p = GenesisPeer THEN Some(<<GenesisTx>>) ELSE None)
                   EXCEPT !.queue = queue_push(@, 1, Wsv(NetMembers))]]
    /\ now = 0
    /\ expired = {}
    /\ net = {}

Busy(p) ==
    \/ peers[p].pc = "start"
    \/ peers[p].pc = "listen" /\ peers[p].incoming # <<>>
    \/ /\ peers[p].pc = "main"
       /\ \E pick \in PickSlots(peers[p]) :
              LET fr == main_loop_iteration(peers[p], pick)
              IN fr.st # peers[p] \/ Posted(p, fr) \ net # {}

Quiet == \A p \in Running : ~Busy(p)

BlockMessages ==
    {m \in net : m.msg.type \in {"BlockCreated", "BlockSigned", "BlockCommitted"}}

(* what the faulty peer has been sent *)
SeenBlocks ==
    {[m.msg.block EXCEPT !.signatures = {}] :
        m \in {x \in BlockMessages : x.to = FaultyPeer}}

SeenBlockSignatures ==
    UNION {m.msg.block.signatures :
              m \in {x \in BlockMessages : x.to = FaultyPeer}}

SeenProofs ==
    UNION {Range(ForeignProofChain(m.msg)) : m \in {x \in net : x.to = FaultyPeer}}

SeenProofSignatures(hash, index) ==
    UNION {pr.signatures :
              pr \in {x \in SeenProofs : /\ x.latest_block_hash = hash
                                         /\ x.view_change_index = index}}

(* The messages of the faulty peer that a correct peer in state st does   *)
(* not refuse outright: a proposal when it leads, a view-change proof and  *)
(* a committed block once it holds a quorum of signatures for them.        *)
FaultyMsgs(st) ==
    LET t == st.current_topology
        proof == proof_sign(Proof(st.latest_block_hash, 0,
                                  SeenProofSignatures(st.latest_block_hash, 0)),
                            FaultyPeer)
        committed(b) ==
            block_sign([b EXCEPT !.signatures =
                           {sg \in SeenBlockSignatures :
                               sg.payload = BlockHash(b)}],
                       FaultyPeer)
    IN IF st.pc = "main" /\ st.latest_block_height < MaxHeight
       THEN {BlockCreated(block_sign(EnvBlocks(st).good, FaultyPeer)) :
                x \in {y \in {FaultyPeer} : leader(t) = y}}
            \cup {ViewChangeSuggested(<<proof>>) :
                     x \in {y \in {FaultyPeer} :
                               Cardinality(proof.signatures)
                                   >= min_votes_for_commit(t)}}
            \cup {BlockCommitted(committed(b)) :
                     b \in {x \in SeenBlocks :
                               /\ x.previous_block_hash = st.latest_block_hash
                               /\ Cardinality(committed(x).signatures)
                                     >= min_votes_for_commit(t)}}
       ELSE {}

(* the network hands a posted message to its addressee *)
Deliver ==
    /\ Quiet
    /\ \E m \in BlockMessages :
          /\ m.to \in Running
          /\ Len(peers[m.to].incoming) < MaxPending
          /\ incoming_message(m.to, m.msg)
          /\ net' = net \ {m}
    /\ UNCHANGED <<now, expired>>

(* the forwarding timer of every peer runs out *)
Timeout ==
    /\ Quiet
    /\ now = 0
    /\ now' = now + pipeline_time + 1
    /\ UNCHANGED <<peers, expired, net>>

FaultySend ==
    /\ Quiet
    /\ \E q \in Running : ReceiveFrom(q, FaultyMsgs(peers[q]))

NextNet ==
    \/ \E p \in Running : Start(p)
    \/ \E p \in Running : ListenForGenesis(p)
    \/ \E p \in Running : MainLoop(p)
    \/ Deliver
    \/ FaultySend
    \/ Timeout

SpecNet == InitNet /\ [][NextNet]_vars

-----------------------------------------------------------------------------
(* Properties.  A property of "an iteration" is stated over every state    *)
(* the loop can be in: it speaks of the iteration the peer runs from that  *)
(* state, for every slot choose() may draw.                                *)

Ready(p) == peers[p].pc = "main" /\ ~peers[p].shutdown

Iterations ==
    {[p |-> p, pick |-> k] : p \in {q \in Running : Ready(q)},
                             k \in 1..MaxTxsInBlock}

Applicable(it) == it.pick \in PickSlots(peers[it.p])

Dispatched(it) == at_dispatch(before_dispatch(peers[it.p], it.pick))

Iteration(it) == main_loop_iteration(peers[it.p], it.pick)

Receives(fr, type) ==
    /\ IsSome(Unwrap(fr.dispatch).msg)
    /\ Unwrap(Unwrap(fr.dispatch).msg).type = type

ReceivedBlock(fr) == Unwrap(Unwrap(fr.dispatch).msg).block

RoleIn(fr, roles) == Unwrap(fr.dispatch).role \in roles

SendsBlockSigned(fr) ==
    \E i \in 1..Len(fr.out) : fr.out[i].msg.type = "BlockSigned"

CommitRoles == {Leader, ValidatingPeer, ObservingPeer}

(* the iteration commits the block of the BlockCommitted it received *)
AcceptsBlockCommitted(fr) ==
    /\ RoleIn(fr, CommitRoles)
    /\ Receives(fr, "BlockCommitted")
    /\ fr.commits # <<>>

ProxyTailSignatures(fr, block) ==
    filter_signatures_by_roles(Unwrap(fr.dispatch).st.current_topology,
                               {ProxyTail}, verified_signatures(block))

(* C3: in every role that accepts BlockCommitted (Leader, ValidatingPeer,  *)
(* ObservingPeer) the block is committed only if its verified signatures   *)
(* hold exactly one signature of the ProxyTail of the receiver's topology. *)
C3_ExactlyOneProxyTailSignature ==
    \A it \in Iterations : Applicable(it) =>
        LET fr == Iteration(it)
        IN AcceptsBlockCommitted(fr) =>
              Cardinality(ProxyTailSignatures(fr, fr.commits[1])) = 1

RoleSigners(fr, block) ==
    Signers(filter_signatures_by_roles(
                Unwrap(fr.dispatch).st.current_topology, AllRoles,
                verified_signatures(block)))

(* C4: a received BlockCommitted is committed only if it carries verified  *)
(* signatures of at least 2f+1 distinct peers holding the Leader,          *)
(* ValidatingPeer or ProxyTail role in the receiver's topology.            *)
C4_QuorumOfRoleHolders ==
    \A it \in Iterations : Applicable(it) =>
        LET fr == Iteration(it)
            t == Unwrap(fr.dispatch).st.current_topology
        IN AcceptsBlockCommitted(fr) =>
              Cardinality(RoleSigners(fr, fr.commits[1]))
                  >= 2 * ((Len(sorted_peers(t)) - 1) \div 3) + 1

(* an observing peer commits on exactly 2f+1 signers *)
C4_Witness ==
    \E it \in Iterations :
        /\ Applicable(it)
        /\ AcceptsBlockCommitted(Iteration(it))
        /\ RoleIn(Iteration(it), {ObservingPeer})
        /\ Cardinality(RoleSigners(Iteration(it), Iteration(it).commits[1]))
              = min_votes_for_commit(
                    Unwrap(Iteration(it).dispatch).st.current_topology)

(* C5: a ValidatingPeer without a voting block that receives a             *)
(* BlockCreated whose proof chain verifies to another view-change index    *)
(* than its own sends no BlockSigned and stores no voting block.           *)
C5_WrongViewChangeIndexRejected ==
    \A it \in Iterations : Applicable(it) =>
        LET fr == Iteration(it)
            d == Unwrap(fr.dispatch)
        IN (/\ RoleIn(fr, {ValidatingPeer})
            /\ Receives(fr, "BlockCreated")
            /\ ~IsSome(d.st.voting_block_option)
            /\ BlockViewChangeIndex(d.st, ReceivedBlock(fr))
                  # fr.current_view_change_index)
           => /\ ~SendsBlockSigned(fr)
              /\ ~IsSome(fr.st.voting_block_option)

(* C2: every block committed in an iteration of the main loop has          *)
(* previous_block_hash equal to the peer's latest_block_hash immediately   *)
(* before that commit.                                                     *)
C2_CommitsAreHashLinked ==
    \A it \in Iterations : Applicable(it) =>
        LET fr == Iteration(it)
        IN \A i \in 1..Len(fr.commits) :
              fr.commits[i].previous_block_hash =
                  IF i = 1 THEN peers[it.p].latest_block_hash
                  ELSE BlockHash(fr.commits[i - 1])

HoldsVotingBlock(fr) ==
    /\ RoleIn(fr, {ValidatingPeer, ProxyTail})
    /\ IsSome(Unwrap(fr.dispatch).st.voting_block_option)

(* C6: while a ValidatingPeer or ProxyTail holds a voting block, a         *)
(* received BlockCreated changes neither the voting block nor the          *)
(* signature accumulator and no BlockSigned is sent; and a voting block is *)
(* cleared only by a height change, a change of the verified view-change   *)
(* index, or the ProxyTail's own quorum commit.                            *)
C6_OneVotingBlock ==
    \A it \in Iterations : Applicable(it) =>
        LET fr == Iteration(it)
            d == Unwrap(fr.dispatch)
            st == peers[it.p]
        IN /\ (HoldsVotingBlock(fr) /\ Receives(fr, "BlockCreated"))
                => /\ fr.st.voting_block_option = d.st.voting_block_option
                   /\ fr.st.block_signature_acc = d.st.block_signature_acc
                   /\ ~SendsBlockSigned(fr)
           /\ (IsSome(st.voting_block_option)
                    /\ ~IsSome(fr.st.voting_block_option))
                => \/ st.old_latest_block_height # st.latest_block_height
                   \/ fr.current_view_change_index # st.old_view_change_index
                   \/ RoleIn(fr, {ProxyTail}) /\ fr.commits # <<>>

(* a ProxyTail that holds a voting block refuses a BlockCreated for        *)
(* another block that its leader signed                                    *)
C6_Witness ==
    \E it \in Iterations :
        /\ Applicable(it)
        /\ HoldsVotingBlock(Iteration(it))
        /\ RoleIn(Iteration(it), {ProxyTail})
        /\ Receives(Iteration(it), "BlockCreated")
        /\ BlockHash(ReceivedBlock(Iteration(it))) #
              BlockHash(Unwrap(Unwrap(Iteration(it).dispatch)
                                  .st.voting_block_option))
        /\ filter_signatures_by_roles(
              Unwrap(Iteration(it).dispatch).st.current_topology, {Leader},
              verified_signatures(ReceivedBlock(Iteration(it)))) # {}

(* the ProxyTail's state when it starts counting votes, if it does *)
Counting(it) ==
    LET at == Dispatched(it)
        handled == proxy_tail_handle_message(at)
    IN [counts |-> /\ RoleIn(at, {ProxyTail})
                   /\ ~handled.skip
                   /\ IsSome(handled.fr.st.voting_block_option),
        st |-> handled.fr.st]

SignersOnVotingBlock(st) ==
    Signers(Range(signatures_on_this_block(
                st.block_signature_acc,
                BlockHash(Unwrap(st.voting_block_option)))))

(* C7: in the ProxyTail's vote counting every public key gives at most one *)
(* vote: vote_count is at most the number of distinct signers accumulated  *)
(* for the voting block plus one, and the signatures kept for the          *)
(* committed block are of pairwise distinct keys.                          *)
C7_OneVotePerKey ==
    \A it \in Iterations : Applicable(it) =>
        LET c == Counting(it)
        IN c.counts =>
              LET tally == count_votes(c.st)
              IN /\ tally.vote_count
                       <= Cardinality(SignersOnVotingBlock(c.st)) + 1
                 /\ Cardinality(Signers(Range(tally.peer_signatures)))
                       = Len(tally.peer_signatures)
                 /\ tally.vote_count = Len(tally.peer_signatures) + 1

(* a validating peer's signature is in the accumulator twice for the       *)
(* voting block and counted once                                           *)
C7_Witness ==
    \E it \in Iterations :
        /\ Applicable(it)
        /\ Counting(it).counts
        /\ \E i, j \in 1..Len(Counting(it).st.block_signature_acc) :
              /\ i # j
              /\ Counting(it).st.block_signature_acc[i]
                    = Counting(it).st.block_signature_acc[j]
              /\ Counting(it).st.block_signature_acc[i][1]
                    = BlockHash(Unwrap(Counting(it).st.voting_block_option))
              /\ Counting(it).st.block_signature_acc[i][2].pk
                    \in Range(validating_peers(
                                 Counting(it).st.current_topology))
        /\ count_votes(Counting(it).st).vote_count = 2

Untouched(a, b) ==
    /\ a.latest_block_height = b.latest_block_height
    /\ a.latest_block_hash = b.latest_block_hash
    /\ a.wsv = b.wsv
    /\ a.public_wsv = b.public_wsv
    /\ a.current_topology = b.current_topology
    /\ a.latest_block_hash_for_use_by_block_sync
          = b.latest_block_hash_for_use_by_block_sync
    /\ a.kura = b.kura

ReceivesOrphan(fr) ==
    /\ RoleIn(fr, CommitRoles)
    /\ Receives(fr, "BlockCommitted")
    /\ ReceivedBlock(fr).previous_block_hash
          # Unwrap(fr.dispatch).st.latest_block_hash

(* C9: a BlockCommitted whose previous_block_hash differs from the         *)
(* receiver's latest_block_hash is not committed, and the handler leaves   *)
(* height, hash, both WSVs, the topology and the block-sync mailbox as     *)
(* they were.                                                              *)
C9_OrphanRefused ==
    \A it \in Iterations : Applicable(it) =>
        LET fr == Iteration(it)
        IN ReceivesOrphan(fr) =>
              /\ fr.commits = <<>>
              /\ Untouched(fr.st, Unwrap(fr.dispatch).st)

(* the orphan carries a full quorum with the ProxyTail's signature *)
C9_Witness ==
    \E it \in Iterations :
        /\ Applicable(it)
        /\ ReceivesOrphan(Iteration(it))
        /\ Cardinality(RoleSigners(Iteration(it),
                                   ReceivedBlock(Iteration(it))))
              >= min_votes_for_commit(
                    Unwrap(Iteration(it).dispatch).st.current_topology)
        /\ Cardinality(ProxyTailSignatures(Iteration(it),
                                           ReceivedBlock(Iteration(it)))) = 1
        /\ Iteration(it).commits = <<>>

(* C10: at the end of every iteration of the main loop the transaction     *)
(* cache holds at most txs_in_block entries.                               *)
C10_CacheBounded ==
    \A p \in Running :
        Len(peers[p].transaction_cache) <= peers[p].queue.txs_in_block

(* the cache is full while the queue still holds a transaction *)
C10_Witness ==
    \E p \in Running :
        /\ peers[p].pc = "main"
        /\ Len(peers[p].transaction_cache) = peers[p].queue.txs_in_block
        /\ peers[p].queue.queue # <<>>
        /\ ~is_in_blockchain(Head(peers[p].queue.queue), peers[p].wsv)
        /\ ~is_expired(Head(peers[p].queue.queue))

(* The peer runs one iteration per delivered message, in the order of     *)
(* `deliveries`, and one more iteration without a message.                 *)
RECURSIVE RunDeliveries(_, _)
RunDeliveries(st, deliveries) ==
    IF st.pc # "main" THEN st
    ELSE IF deliveries = <<>> THEN main_loop_iteration(st, 1).st
    ELSE RunDeliveries(
            main_loop_iteration(
                [st EXCEPT !.incoming = <<Head(deliveries)>>], 1).st,
            Tail(deliveries))

Orders(D) ==
    {order \in [1..Cardinality(D) -> D] :
        \A i, j \in 1..Cardinality(D) : order[i] = order[j] => i = j}

(* One proposal and the votes on it, as the peers of the round send them:  *)
(* the leader's BlockCreated, each validating peer's BlockSigned, and one  *)
(* of them a second time without the leader's signature.                   *)
RoundDeliveries(st) ==
    LET t == st.current_topology
        block == EnvBlocks(st).good
        L == {leader(t)}
        V1 == {validating_peers(t)[1]}
        V2 == {validating_peers(t)[2]}
    IN {BlockCreated(EnvSign(block, L, st)),
        BlockSigned(EnvSign(block, L \cup V1, st)),
        BlockSigned(EnvSign(block, L \cup V2, st)),
        BlockSigned(EnvSign(block, V1, st))}

CommitDecision(st) == <<st.latest_block_height, st.latest_block_hash, st.kura>>

(* a ProxyTail at the start of a round *)
AwaitsVotes(p) ==
    /\ Ready(p)
    /\ role(peers[p].current_topology, p) = ProxyTail
    /\ peers[p].incoming = <<>>
    /\ peers[p].old_latest_block_height = peers[p].latest_block_height
    /\ peers[p].latest_block_height < MaxHeight
    /\ ~IsSome(peers[p].voting_block_option)
    /\ peers[p].block_signature_acc = <<>>

(* C8: whether the ProxyTail commits its voting block depends on which     *)
(* BlockCreated and BlockSigned messages of the round it is given, not on  *)
(* their order: from the start of a round, every order of the same         *)
(* deliveries, BlockSigned before BlockCreated included, ends in the same  *)
(* commit decision.                                                        *)
C8_ArrivalOrderIrrelevant ==
    \A p \in Running : AwaitsVotes(p) =>
        \A D \in SUBSET RoundDeliveries(peers[p]) :
            Cardinality({CommitDecision(RunDeliveries(peers[p], order)) :
                            order \in Orders(D)}) = 1

(* both votes arrive before the proposal and the block is committed *)
C8_Witness ==
    \E p \in Running :
        /\ AwaitsVotes(p)
        /\ \E order \in Orders(RoundDeliveries(peers[p])) :
              /\ order[1].type = "BlockSigned"
              /\ order[2].type = "BlockSigned"
              /\ order[3].type = "BlockCreated"
              /\ RunDeliveries(peers[p], order).latest_block_height
                    = peers[p].latest_block_height + 1

(* C1: with at most f faulty peers, any two correct peers that committed a *)
(* block at the same height committed blocks with the same hash.           *)
C1_Agreement ==
    \A p, q \in Running :
        \A i \in 1..Len(peers[p].kura) : \A j \in 1..Len(peers[q].kura) :
            peers[p].kura[i].height = peers[q].kura[j].height
                => BlockHash(peers[p].kura[i]) = BlockHash(peers[q].kura[j])

-----------------------------------------------------------------------------
(* The transaction cache of a peer whose queue is configured with blocks   *)
(* of MaxTxsInBlock transactions: clients submit, transactions expire and  *)
(* another peer's block is committed while the cache is filled.            *)

CacheMsgs(st) ==
    IF st.pc = "main" /\ st.latest_block_height < MaxHeight
    THEN {BlockCommitted(EnvSign(EnvBlocks(st).good,
                                 Range(sorted_peers(st.current_topology)),
                                 st))}
    ELSE {}

InitCache ==
    \E p \in AllPeers :
        /\ peers = (p :> [from_configuration(p, AllPeers, Some(<<GenesisTx>>))
                            EXCEPT !.queue.txs_in_block = MaxTxsInBlock])
        /\ now = 0
        /\ expired = {}
        /\ net = {}

NextCache ==
    \/ \E p \in Running : Start(p)
    \/ \E p \in Running : MainLoop(p)
    \/ \E p \in Running : ReceiveFrom(p, CacheMsgs(peers[p]))
    \/ \E p \in Running : SubmitTransaction(p, Txs)
    \/ Expire

SpecCache == InitCache /\ [][NextCache]_vars

(* the entries of `cache` that are not in `drop`, in their order *)
Keep(cache, drop) ==
    SelectSeq(cache, LAMBDA slot : IsSome(slot) /\ Unwrap(slot) \notin drop)

Expired(cache) == {tx \in CachedTxs(cache) : is_expired(tx)}

OnChain(cache, wsv) == {tx \in CachedTxs(cache) : is_in_blockchain(tx, wsv)}

IsPrefix(s, seq) == Len(s) <= Len(seq) /\ SubSeq(seq, 1, Len(s)) = s

NoEmptySlot(cache) == \A i \in 1..Len(cache) : IsSome(cache[i])

(* C11: the per-iteration prune leaves the cache with exactly its expired  *)
(* entries removed (new entries are only appended after it), the prune at  *)
(* a commit leaves it with exactly the expired and the on-chain entries    *)
(* removed, both in the order the entries had, and no slot of the cache is *)
(* ever empty.                                                             *)
C11_CompactionIsOrderedFilter ==
    /\ \A p \in Running : NoEmptySlot(peers[p].transaction_cache)
    /\ \A it \in Iterations : Applicable(it) =>
          LET cache == peers[it.p].transaction_cache
              filled == refresh_transaction_cache(Frame(peers[it.p])).st
                            .transaction_cache
              fr == Iteration(it)
          IN /\ IsPrefix(Keep(cache, Expired(cache)), filled)
             /\ NoEmptySlot(filled)
             /\ fr.commits # <<>> =>
                    fr.st.transaction_cache =
                        Keep(filled, Expired(filled)
                                        \cup OnChain(filled, fr.st.wsv))

(* a commit takes the first of three cached transactions and the other two *)
(* stay, and the cache held an expired entry before its later ones         *)
C11_Witness ==
    \E it \in Iterations :
        /\ Applicable(it)
        /\ Iteration(it).commits # <<>>
        /\ LET cache == peers[it.p].transaction_cache
               filled == refresh_transaction_cache(Frame(peers[it.p])).st
                             .transaction_cache
           IN /\ Len(cache) = MaxTxsInBlock
              /\ Len(filled) = MaxTxsInBlock
              /\ OnChain(filled, Iteration(it).st.wsv) = {Unwrap(filled[1])}
              /\ Len(Iteration(it).st.transaction_cache) = MaxTxsInBlock - 1

-----------------------------------------------------------------------------
(* The wait for genesis *)

Listening == {p \in Running : peers[p].pc = "listen" /\ ~peers[p].shutdown}

CarriesGenesis(msg) ==
    /\ msg.type = "BlockCommitted"
    /\ is_genesis(msg.block)
    /\ IsSome(msg.block.genesis_topology)

(* C12: a peer waiting for genesis commits a message if and only if it is  *)
(* a BlockCommitted whose header is genesis and carries a genesis          *)
(* topology; it then commits under the carried topology and leaves the     *)
(* wait at height 1; any other message is taken from the channel and       *)
(* height, hash, both WSVs and the topology stay as they were.             *)
C12_OnlyGenesisEndsTheWait ==
    \A p \in Listening :
        LET st == peers[p]
            fr == listen_for_genesis(st)
        IN /\ st.latest_block_height = 0
           /\ IF st.incoming # <<>> /\ CarriesGenesis(Head(st.incoming))
              THEN LET block == Head(st.incoming).block
                       carried == Unwrap(block.genesis_topology)
                   IN /\ fr.commits = <<block>>
                      /\ fr.st.pc = "main"
                      /\ fr.st.latest_block_height = 1
                      /\ fr.st.latest_block_hash = BlockHash(block)
                      /\ fr.st.current_topology =
                            update_network_topology(
                                refresh_at_new_block(carried,
                                                     BlockHash(block)),
                                fr.st.wsv)
              ELSE /\ fr.commits = <<>>
                   /\ fr.st.pc = "listen"
                   /\ fr.st.incoming = (IF st.incoming = <<>> THEN <<>>
                                        ELSE Tail(st.incoming))
                   /\ fr.st.latest_block_height = st.latest_block_height
                   /\ fr.st.latest_block_hash = st.latest_block_hash
                   /\ fr.st.wsv = st.wsv
                   /\ fr.st.public_wsv = st.public_wsv
                   /\ fr.st.current_topology = st.current_topology

(* the waiting peer holds a BlockCommitted for a block of height 1 that    *)
(* carries no genesis topology, and stays in the wait                      *)
C12_Witness ==
    \E p \in Listening :
        /\ peers[p].incoming # <<>>
        /\ Head(peers[p].incoming).type = "BlockCommitted"
        /\ is_genesis(Head(peers[p].incoming).block)
        /\ ~IsSome(Head(peers[p].incoming).block.genesis_topology)
        /\ listen_for_genesis(peers[p]).st.pc = "listen"

-----------------------------------------------------------------------------
(* The single-peer network *)

Alone(p) == ~is_consensus_required(peers[p].current_topology)

(* the leader's test of fault.rs:736-743, on the state at the role match *)
BlockIsDue(st) ==
    /\ st.transaction_cache # <<>>
    /\ \/ now > st.instant_when_we_should_create_a_block
       \/ Len(st.transaction_cache) >= st.queue.txs_in_block

(* C13: in a network of one peer the Leader commits the block it assembles *)
(* in the iteration that assembles it, whether or not a message arrived;   *)
(* it never holds a voting block and never sends BlockCreated, and after   *)
(* the commit its proof chain is empty and its recorded view-change index  *)
(* is 0.                                                                   *)
C13_SinglePeerSelfCommit ==
    \A it \in Iterations : (Applicable(it) /\ Alone(it.p)) =>
        LET st == peers[it.p]
            fr == Iteration(it)
            filled == refresh_transaction_cache(Frame(st)).st.transaction_cache
        IN /\ role(st.current_topology, st.peer_id) = Leader
           /\ st.voting_block_option = None
           /\ fr.st.voting_block_option = None
           /\ \A m \in Range(fr.out) : m.msg.type # "BlockCreated"
           /\ BlockIsDue(Unwrap(fr.dispatch).st) <=> fr.commits # <<>>
           /\ fr.commits # <<>> =>
                 /\ Len(fr.commits) = 1
                 /\ fr.commits[1].height = st.latest_block_height + 1
                 /\ fr.commits[1].previous_block_hash = st.latest_block_hash
                 /\ Range(fr.commits[1].transactions)
                       \cup Range(fr.commits[1].rejected_transactions)
                          = CachedTxs(filled)
                 /\ Signers(fr.commits[1].signatures) = {st.peer_id}
                 /\ fr.st.latest_block_height = st.latest_block_height + 1
                 /\ fr.st.view_change_proof_chain = <<>>
                 /\ fr.st.old_view_change_index = 0

(* the single peer commits a block of its own while its channel is empty *)
C13_Witness ==
    \E it \in Iterations :
        /\ Applicable(it)
        /\ Alone(it.p)
        /\ peers[it.p].incoming = <<>>
        /\ peers[it.p].latest_block_height = 1
        /\ Iteration(it).commits # <<>>
        /\ Iteration(it).st.latest_block_height = 2

-----------------------------------------------------------------------------
(* Who sends BlockCommitted *)

EmitsBlockCommitted(fr) ==
    \E m \in Range(fr.out) : m.msg.type = "BlockCommitted"

Starting == {p \in Running : peers[p].pc = "start"}

-----------------------------------------------------------------------------
(* The verified view-change index *)

(* the index the peer computes from its proof chain: fault.rs:558-568 *)
VerifiedIndex(st) ==
    verify_with_state(prune(st.view_change_proof_chain, st.latest_block_hash),
                      Range(sorted_peers(st.current_topology)),
                      max_faults(st.current_topology),
                      st.latest_block_hash)

(* between two commits the computed index does not decrease *)
IndexIsMonotonic ==
    \A it \in Iterations : Applicable(it) =>
        LET st == peers[it.p]
            fr == Iteration(it)
        IN /\ VerifiedIndex(st) <= fr.current_view_change_index
           /\ fr.commits = <<>>
                 => fr.current_view_change_index <= VerifiedIndex(fr.st)

(* a commit leaves no proof that survives the next prune *)
CommitUnbindsProofs ==
    \A it \in Iterations : Applicable(it) =>
        LET fr == Iteration(it)
        IN fr.commits # <<>> =>
              /\ prune(fr.st.view_change_proof_chain,
                       fr.st.latest_block_hash) = <<>>
              /\ VerifiedIndex(fr.st) = 0
              /\ fr.st.current_topology.view_change_count = 0

(* the first iteration after a commit: the height differs from the one    *)
(* recorded by the loop                                                    *)
AfterCommit(st) == st.old_latest_block_height # st.latest_block_height

BringsProofs(st) ==
    /\ st.incoming # <<>>
    /\ \E i \in 1..Len(ForeignProofChain(Head(st.incoming))) :
          ForeignProofChain(Head(st.incoming))[i].latest_block_hash
              = st.latest_block_hash

IndexIsReset(it) ==
    LET fr == Iteration(it)
        at == Unwrap(fr.dispatch).st
    IN /\ fr.current_view_change_index = 0
       /\ at.current_topology.view_change_count = 0
       /\ at.old_view_change_index = 0

-----------------------------------------------------------------------------
(* A network of correct peers only, with reliable delivery and every       *)
(* thread scheduled fairly.  Clients have submitted a full block of        *)
(* transactions to every peer, so the Leader proposes without waiting for  *)
(* block_time and the round ends before any timer runs out.                *)

InitHappy ==
    /\ peers = [p \in NetMembers |->
                  [from_configuration(p, NetMembers,
                      IF p = GenesisPeer THEN Some(<<GenesisTx>>) ELSE None)
                   EXCEPT !.queue = queue_push(@, 1, Wsv(NetMembers))]]
    /\ now = 0
    /\ expired = {}
    /\ net = {}

(* the network hands any posted message to its addressee *)
DeliverAny ==
    /\ Quiet
    /\ \E m \in net :
          /\ m.to \in Running
          /\ Len(peers[m.to].incoming) < MaxPending
          /\ incoming_message(m.to, m.msg)
          /\ net' = net \ {m}
    /\ UNCHANGED <<now, expired>>

(* DeliverAny can change the state *)
CanDeliver ==
    /\ Quiet
    /\ \E m \in net :
          m.to \in Running /\ Len(peers[m.to].incoming) < MaxPending

(* Threads and network are fast: the clock moves on when no thread has a   *)
(* step to take and no message is waiting.                                 *)
Idle == Quiet /\ ~CanDeliver

Wait(horizon) == Idle /\ Tick(horizon)

NextHappy ==
    \/ \E p \in Running : Start(p)
    \/ \E p \in Running : ListenForGenesis(p)
    \/ \E p \in Running : MainLoop(p)
    \/ DeliverAny
    \/ Wait(block_time + 1)

(* a step of the thread of peer p *)
ThreadStep(p) == Start(p) \/ ListenForGenesis(p) \/ MainLoop(p)

(* Every peer's thread keeps running, the network keeps delivering and the *)
(* clock keeps going: weak fairness of each thread and of the network,     *)
(*     WF_vars(ThreadStep(p))  and  WF_vars(DeliverAny),                   *)
(* written out as  []<>(not enabled) \/ []<>(step taken)  with the state   *)
(* predicate that says when the step can change the state: Busy(p) for a   *)
(* thread, CanDeliver for the network.                                     *)
FairHappy ==
    /\ \A p \in NetMembers :
          []<>(~Busy(p)) \/ []<><<ThreadStep(p)>>_vars
    /\ []<>(~CanDeliver) \/ []<><<DeliverAny>>_vars
    /\ WF_vars(Tick(block_time + 1))

SpecHappy == InitHappy /\ [][NextHappy]_vars /\ FairHappy

PastGenesis ==
    \A p \in Running :
        /\ peers[p].pc = "main"
        /\ peers[p].latest_block_height >= 1

LeaderHasTransactions ==
    \E p \in Running :
        /\ role(peers[p].current_topology, p) = Leader
        /\ peers[p].latest_block_height = 1
        /\ peers[p].transaction_cache # <<>>
        /\ peers[p].voting_block_option = None

(* the topology of the round that follows genesis *)
FirstRound ==
    refresh_at_new_block(topology_build(NetMembers, ZeroHash, 0),
                         BlockHash(GenesisBlock))

(* every peer holds the same block at height 2, carrying the votes of the  *)
(* validating peers and of the ProxyTail of the round (fault.rs:1098-1111  *)
(* keeps the signatures of set A and adds the ProxyTail's own)             *)
RoundCommitted ==
    \A p \in Running :
        /\ peers[p].latest_block_height = 2
        /\ \A q \in Running :
              peers[q].latest_block_hash = peers[p].latest_block_hash
        /\ Len(peers[p].kura) = 2
        /\ BlockHash(peers[p].kura[2]) = peers[p].latest_block_hash
        /\ Signers(verified_signatures(peers[p].kura[2]))
              = {proxy_tail(FirstRound)}
                    \cup Range(validating_peers(FirstRound))

(* C16: with correct peers past genesis, reliable delivery, fair           *)
(* scheduling and transactions in the Leader's cache, eventually every     *)
(* peer is at the next height with the same block, which the Leader        *)
(* proposed, the validating peers signed and the ProxyTail committed.      *)
C16_HappyPath == (PastGenesis /\ LeaderHasTransactions) ~> RoundCommitted

(* the round is over: the ProxyTail committed on three votes and the other *)
(* peers on its BlockCommitted                                             *)
C16_Witness ==
    /\ RoundCommitted
    /\ \A p \in Running : peers[p].incoming = <<>>
    /\ Cardinality(Running) = NumPeers - 1

-----------------------------------------------------------------------------
(* A silent Leader: the peers of InitNet, where the Leader of the first    *)
(* round sends nothing.  Every posted message is delivered to the correct  *)
(* peers, and the clock runs past the pipeline time of the forwarded       *)
(* transactions while threads and network are idle.                        *)

NextSilent ==
    \/ \E p \in Running : Start(p)
    \/ \E p \in Running : ListenForGenesis(p)
    \/ \E p \in Running : MainLoop(p)
    \/ DeliverAny
    \/ Wait(pipeline_time + 1)

(* threads, network and clock keep going, as in FairHappy *)
FairSilent ==
    /\ \A p \in Correct :
          []<>(~Busy(p)) \/ []<><<ThreadStep(p)>>_vars
    /\ []<>(~CanDeliver) \/ []<><<DeliverAny>>_vars
    /\ WF_vars(Tick(pipeline_time + 1))

SpecSilent == InitNet /\ [][NextSilent]_vars /\ FairSilent

(* every correct peer is a non-leader of the first round holding a cached  *)
(* transaction that meets its signature condition, and no view has changed *)
NonLeadersHoldTransactions ==
    \A p \in Running :
        /\ peers[p].pc = "main"
        /\ peers[p].latest_block_height = 1
        /\ leader(peers[p].current_topology) = FaultyPeer
        /\ peers[p].old_view_change_index = 0
        /\ \E i \in 1..Len(peers[p].transaction_cache) :
              /\ peers[p].transaction_cache[i] # None
              /\ check_signature_condition(
                     Unwrap(peers[p].transaction_cache[i]), peers[p].wsv)

(* the first proof of p's chain is for index 0 at p's block and carries    *)
(* the signature of every non-leader                                       *)
ProofGathered(p) ==
    /\ peers[p].view_change_proof_chain # <<>>
    /\ LET proof == peers[p].view_change_proof_chain[1]
       IN /\ proof.view_change_index = 0
          /\ proof.latest_block_hash = peers[p].latest_block_hash
          /\ Signers({sg \in proof.signatures :
                         sg.payload = ProofPayload(proof.latest_block_hash,
                                                   proof.view_change_index)})
                = Correct

ViewChanged ==
    \A p \in Running :
        /\ peers[p].latest_block_height = 1
        /\ ProofGathered(p)
        /\ peers[p].old_view_change_index = 1
        /\ VerifiedIndex(peers[p]) = 1
        /\ peers[p].current_topology =
              rebuild_with_new_view_change_count(FirstRound, 1)
        /\ leader(peers[p].current_topology) # FaultyPeer

(* C17: with a Leader that sends nothing and non-leaders that each hold a  *)
(* cached transaction meeting its signature condition, under fair          *)
(* scheduling and reliable delivery every non-leader eventually signs the  *)
(* proof for index 0, the proof gathers the three signatures, every        *)
(* correct peer's verified index becomes 1 and the topology is rebuilt     *)
(* with another Leader.                                                    *)
C17_SilentLeader == NonLeadersHoldTransactions ~> ViewChanged

(* the three non-leaders have changed the view after the timeout *)
C17_Witness ==
    /\ ViewChanged
    /\ now > pipeline_time
    /\ Cardinality(Running) = 3

-----------------------------------------------------------------------------
(* The topology against the WSV's peers.  The WSV handed to                *)
(* from_configuration (mod.rs:73) is not built from the configuration's    *)
(* trusted peers (mod.rs:82-85): the peer starts with any WSV that knows   *)
(* it, commits genesis, and then takes view changes and blocks.            *)

WsvPeerSets(p) ==
    {T \in SUBSET AllPeers : p \in T /\ Cardinality(T) >= NumPeers - 1}

TopologyMsgs(st) ==
    IF st.pc = "main" /\ st.latest_block_height < MaxHeight
    THEN {ViewChangeSuggested(EnvChain(st)),
          BlockCommitted(EnvSign(EnvBlocks(st).good,
                                 Range(sorted_peers(st.current_topology)),
                                 st))}
    ELSE {}

InitTopology ==
    \E p \in NetMembers : \E T \in WsvPeerSets(p) :
        /\ peers = (p :> [from_configuration(p, NetMembers,
                                              Some(<<GenesisTx>>))
                            EXCEPT !.wsv = Wsv(T), !.public_wsv = Wsv(T)])
        /\ now = 0
        /\ expired = {}
        /\ net = {}

NextTopology ==
    \/ \E p \in Running : Start(p)
    \/ \E p \in Running : MainLoop(p)
    \/ \E p \in Running : ReceiveFrom(p, TopologyMsgs(peers[p]))
    \/ \E p \in Running : SubmitTransaction(p, {1})

SpecTopology == InitTopology /\ [][NextTopology]_vars

TopologyPeers(t) == Range(sorted_peers(t))

(* what update_network_topology makes of topology t under WSV w *)
TopologyFollowsWsv(t, w) ==
    LET r == update_network_topology(t, w)
    IN IF TopologyPeers(t) = w.trusted_peers_ids
       THEN r = t
       ELSE /\ r # t
            /\ TopologyPeers(r) = w.trusted_peers_ids
            /\ r.view_change_count = 0
            /\ r = topology_build(w.trusted_peers_ids, t.at_block, 0)

(* C18: update_network_topology replaces the topology, rebuilt at          *)
(* view-change count 0 with the WSV's peers, exactly when the WSV's set of *)
(* trusted peers differs from the topology's set of peers, and otherwise   *)
(* leaves it as it is, order included; the commit of a block leaves the    *)
(* peer with the refreshed topology so updated.                            *)
C18_TopologyUpdatedIffPeersDiffer ==
    \A p \in Running :
        LET st == peers[p]
        IN /\ TopologyFollowsWsv(st.current_topology, st.wsv)
           /\ st.pc = "start" =>
                 LET after == start_main_loop(st).st
                     fresh == refresh_at_new_block(st.current_topology,
                                                   after.latest_block_hash)
                 IN /\ after.latest_block_height = 1
                    /\ TopologyFollowsWsv(fresh, after.wsv)
                    /\ after.current_topology =
                          IF TopologyPeers(fresh) = after.wsv.trusted_peers_ids
                          THEN fresh
                          ELSE topology_build(after.wsv.trusted_peers_ids,
                                              after.latest_block_hash, 0)

(* a peer whose topology was replaced at the genesis commit holds, after a *)
(* view change, a rotated topology over the WSV's peers                    *)
C18_Witness ==
    \E p \in Running :
        /\ peers[p].latest_block_height >= 1
        /\ TopologyPeers(peers[p].current_topology)
              = peers[p].wsv.trusted_peers_ids
        /\ peers[p].wsv.trusted_peers_ids # NetMembers
        /\ peers[p].current_topology.view_change_count = 1
        /\ peers[p].current_topology #
              with_peers(peers[p].current_topology,
                         peers[p].wsv.trusted_peers_ids)

-----------------------------------------------------------------------------
(* The inbound channel under load: the network hands gossip to a peer      *)
(* faster than its thread takes it, from before the thread has started.    *)

(* the two gossip messages, in turn *)
FloodMsgs == {TransactionGossip(<<1>>), TransactionGossip(<<2>>)}

InTurn(channel) ==
    IF channel # <<>> /\ channel[Len(channel)] = TransactionGossip(<<1>>)
    THEN TransactionGossip(<<2>>)
    ELSE TransactionGossip(<<1>>)

Flood(p) ==
    /\ incoming_message(p, InTurn(peers[p].incoming))
    /\ UNCHANGED <<now, expired, net>>

InitChannel == \E genesis \in GenesisOptions : InitPeer(1, NumPeers, genesis)

NextChannel ==
    \/ \E p \in Running : Start(p)
    \/ \E p \in Running : ListenForGenesis(p)
    \/ \E p \in Running : MainLoop(p)
    \/ \E p \in Running : Flood(p)

SpecChannel == InitChannel /\ [][NextChannel]_vars

(* try_recv of frame fr took the oldest message of `channel`, if any *)
TookOldest(channel, fr) ==
    IF channel = <<>>
    THEN fr.received = None /\ fr.st.incoming = <<>>
    ELSE fr.received = Some(Head(channel)) /\ fr.st.incoming = Tail(channel)

(* C19: the channel never holds more than 250 messages; a message offered  *)
(* to a full channel is dropped and the queued ones stay as they are, a    *)
(* message offered otherwise goes to the end; and the thread, in the wait  *)
(* for genesis and in the loop, takes the oldest queued message.           *)
C19_ChannelBoundedFifo ==
    \A p \in Running :
        LET st == peers[p]
            channel == st.incoming
        IN /\ Len(channel) <= ChannelCapacity
           /\ \A msg \in FloodMsgs :
                 try_send(channel, msg) =
                     IF Len(channel) = ChannelCapacity THEN channel
                     ELSE Append(channel, msg)
           /\ (st.pc = "listen" /\ ~st.shutdown) =>
                 TookOldest(channel, listen_for_genesis(st))
           /\ \A it \in Iterations : (it.p = p /\ Applicable(it)) =>
                 TookOldest(channel, Iteration(it))

(* the channel is full while the thread is in the loop and has taken       *)
(* gossip from it                                                          *)
C19_Witness ==
    \E p \in Running :
        /\ Len(peers[p].incoming) = ChannelCapacity
        /\ Head(peers[p].incoming) # peers[p].incoming[ChannelCapacity]
        /\ peers[p].pc = "main"
        /\ peers[p].queue.txs \cup CachedTxs(peers[p].transaction_cache) # {}

-----------------------------------------------------------------------------
(* C20: a ProxyTail without a voting block that receives a BlockCreated    *)
(* whose proof chain verifies to another view-change index than its own    *)
(* adds no signature to the accumulator, stores no voting block and does   *)
(* not arm the commit deadline.                                            *)
C20_ProxyTailRejectsWrongIndex ==
    \A it \in Iterations : Applicable(it) =>
        LET fr == Iteration(it)
            d == Unwrap(fr.dispatch)
        IN (/\ RoleIn(fr, {ProxyTail})
            /\ Receives(fr, "BlockCreated")
            /\ ~IsSome(d.st.voting_block_option)
            /\ BlockViewChangeIndex(d.st, ReceivedBlock(fr))
                  # fr.current_view_change_index)
           => /\ fr.st.block_signature_acc = d.st.block_signature_acc
              /\ ~IsSome(fr.st.voting_block_option)
              /\ fr.st.instant_at_which_we_should_have_committed =
                    d.st.instant_at_which_we_should_have_committed

-----------------------------------------------------------------------------
(* The timers of a round: one peer of a NumPeers network that holds a      *)
(* transaction, while the clock runs freely and the other peers send it    *)
(* the block of the round, the votes on it, its commit and a view change.  *)

TimerMsgs(st) ==
    LET t == st.current_topology
        L == {leader(t)}
        P == {proxy_tail(t)}
        V == Range(validating_peers(t))
        b == EnvBlocks(st)
    IN IF st.pc = "main" /\ st.latest_block_height < MaxHeight
       THEN {BlockCreated(EnvSign(b.good, L, st)),
             BlockCreated(EnvSign(b.unval, L, st)),
             BlockSigned(EnvSign(b.good, V, st)),
             BlockCommitted(EnvSign(b.good, L \cup V \cup P, st)),
             ViewChangeSuggested(EnvChain(st))}
       ELSE {}

InitTimers ==
    \E p \in AllPeers :
        /\ peers = (p :> [from_configuration(p, AllPeers, Some(<<GenesisTx>>))
                            EXCEPT !.queue = queue_push(@, 1, Wsv(AllPeers))])
        /\ now = 0
        /\ expired = {}
        /\ net = {}

NextTimers ==
    \/ \E p \in Running : Start(p)
    \/ \E p \in Running : MainLoop(p)
    \/ \E p \in Running : ReceiveFrom(p, TimerMsgs(peers[p]))
    \/ Tick(pipeline_time + commit_time + MaxNow)

SpecTimers == InitTimers /\ [][NextTimers]_vars

(* what the role handler of the iteration posted *)
HandlerOut(it) ==
    SubSeq(Iteration(it).out, Len(Dispatched(it).out) + 1,
           Len(Iteration(it).out))

HandlerSuggests(it) ==
    \E i \in 1..Len(HandlerOut(it)) :
        HandlerOut(it)[i].msg.type = "ViewChangeSuggested"

(* C21: the ProxyTail's handler suggests a view change only when the       *)
(* commit deadline is over and its voting block has no quorum: an          *)
(* iteration that commits on quorum posts no ViewChangeSuggested from the  *)
(* handler, and every suggestion moves the deadline on by commit_time.     *)
C21_ProxyTailSuggestsOnlyWithoutQuorum ==
    \A it \in Iterations : Applicable(it) =>
        LET fr == Iteration(it)
            d == Unwrap(fr.dispatch)
        IN RoleIn(fr, {ProxyTail}) =>
             /\ fr.commits # <<>> => ~HandlerSuggests(it)
             /\ HandlerSuggests(it) =>
                   /\ now > d.st.instant_at_which_we_should_have_committed
                   /\ fr.st.instant_at_which_we_should_have_committed =
                         d.st.instant_at_which_we_should_have_committed
                             + commit_time

-----------------------------------------------------------------------------
(* the BlockCreated of the iteration carries the Leader's signature *)
LeaderSigned(fr) ==
    filter_signatures_by_roles(Unwrap(fr.dispatch).st.current_topology,
                               {Leader},
                               verified_signatures(ReceivedBlock(fr))) # {}

(* validation_check refuses the block of the iteration *)
FailsValidation(fr) ==
    LET d == Unwrap(fr.dispatch)
    IN ~validation_check(revalidate(ReceivedBlock(fr), d.st.wsv), d.st.wsv,
                         d.st.latest_block_hash, d.st.latest_block_height)

(* C22: a ValidatingPeer without a voting block that receives a            *)
(* BlockCreated signed by the Leader which fails validation_check sends no *)
(* BlockSigned and keeps its voting-block slot empty, so that a later      *)
(* BlockCreated of the same height and view is still taken.                *)
C22_RejectedBlockLeavesSlotFree ==
    \A it \in Iterations : Applicable(it) =>
        LET fr == Iteration(it)
            d == Unwrap(fr.dispatch)
        IN (/\ RoleIn(fr, {ValidatingPeer})
            /\ Receives(fr, "BlockCreated")
            /\ ~IsSome(d.st.voting_block_option)
            /\ LeaderSigned(fr)
            /\ FailsValidation(fr))
           => /\ ~SendsBlockSigned(fr)
              /\ ~IsSome(fr.st.voting_block_option)

-----------------------------------------------------------------------------
(* C23: a ValidatingPeer or ProxyTail that receives a BlockCreated without *)
(* a verified signature of the Leader of its topology drops it: the        *)
(* handler posts nothing (no BlockSigned), commits nothing, and leaves the *)
(* accumulator, the voting block and the rest of the peer's state as they  *)
(* were at dispatch, so an empty voting-block slot stays empty.            *)
C23_UnsignedBlockCreatedDropped ==
    \A it \in Iterations : Applicable(it) =>
        LET fr == Iteration(it)
            d == Unwrap(fr.dispatch)
        IN (/\ RoleIn(fr, {ValidatingPeer, ProxyTail})
            /\ Receives(fr, "BlockCreated")
            /\ ~LeaderSigned(fr))
           => /\ ~SendsBlockSigned(fr)
              /\ HandlerOut(it) = <<>>
              /\ fr.commits = <<>>
              /\ fr.st.block_signature_acc = d.st.block_signature_acc
              /\ fr.st.voting_block_option = d.st.voting_block_option
              /\ fr.st = d.st

(* a peer with an empty slot drops a BlockCreated that carries a           *)
(* signature, but not the Leader's                                         *)
C23_Witness ==
    \E it \in Iterations :
        /\ Applicable(it)
        /\ RoleIn(Iteration(it), {ValidatingPeer, ProxyTail})
        /\ Receives(Iteration(it), "BlockCreated")
        /\ ~LeaderSigned(Iteration(it))
        /\ verified_signatures(ReceivedBlock(Iteration(it))) # {}
        /\ ~IsSome(peers[it.p].voting_block_option)
        /\ ~IsSome(Iteration(it).st.voting_block_option)

-----------------------------------------------------------------------------
(* the keys of set A with a signature in `acc` under block hash `hash` *)
CountedVoters(acc, hash, t) ==
    {acc[i][2].pk : i \in {j \in 1..Len(acc) : acc[j][1] = hash}}
        \cap Range(peers_set_a(t))

(* C24: a ProxyTail never fails the assertion on the signature count; and  *)
(* when it commits on quorum, the one block it commits carries one         *)
(* verified signature of every counted voter and one of its own and no     *)
(* other, which are at least min_votes_for_commit; BlockCommitted with     *)
(* that block has been posted to every peer of the topology of the round,  *)
(* and the voting block is cleared.                                        *)
C24_ProxyTailCommitsSignedBlock ==
    \A it \in Iterations : Applicable(it) =>
        LET fr == Iteration(it)
            d == Unwrap(fr.dispatch)
            t == d.st.current_topology
        IN RoleIn(fr, {ProxyTail}) =>
             /\ fr.st.pc # "panicked"
             /\ fr.commits # <<>> =>
                   LET block == fr.commits[1]
                       hash == BlockHash(block)
                   IN /\ Len(fr.commits) = 1
                      /\ verified_signatures(block) = block.signatures
                      /\ \A pk \in Signers(block.signatures) :
                            Cardinality({sg \in block.signatures :
                                            sg.pk = pk}) = 1
                      /\ Signers(block.signatures) =
                            CountedVoters(fr.st.block_signature_acc, hash, t)
                                \cup {it.p}
                      /\ it.p \notin
                            CountedVoters(fr.st.block_signature_acc, hash, t)
                      /\ Cardinality(block.signatures)
                            >= min_votes_for_commit(t)
                      /\ \A q \in Range(sorted_peers(t)) \ {it.p} :
                            \E i \in 1..Len(HandlerOut(it)) :
                                HandlerOut(it)[i] =
                                    Post(q, BlockCommitted(block))
                      /\ ~IsSome(fr.st.voting_block_option)
                      /\ fr.st.latest_block_hash = hash

(* the ProxyTail commits on the votes of the validating peers *)
C24_Witness ==
    \E it \in Iterations :
        /\ Applicable(it)
        /\ RoleIn(Iteration(it), {ProxyTail})
        /\ Iteration(it).commits # <<>>
        /\ Cardinality(Iteration(it).commits[1].signatures)
              = min_votes_for_commit(
                    Unwrap(Iteration(it).dispatch).st.current_topology)
        /\ Len(Iteration(it).st.block_signature_acc)
              > Cardinality(Iteration(it).commits[1].signatures) - 1

-----------------------------------------------------------------------------
(* the accumulator entries the iteration added *)
Accumulated(it) ==
    LET before == Unwrap(Iteration(it).dispatch).st.block_signature_acc
        after == Iteration(it).st.block_signature_acc
    IN SubSeq(after, Len(before) + 1, Len(after))

VotingHash(st) == BlockHash(Unwrap(st.voting_block_option))

(* C25: the votes counted for a ProxyTail's voting block are its own and   *)
(* those of the distinct keys of set A that have a signature under the     *)
(* voting block's hash in the accumulator, so signatures that came with a  *)
(* BlockSigned for another block never count, whether it came before the   *)
(* voting block was stored (they are kept under their own hash) or after   *)
(* (they are dropped); and what an iteration accumulates are verified      *)
(* signatures of the Leader and the validating peers of the topology on    *)
(* the block received.                                                     *)
C25_OnlyVotesOnVotingBlockCount ==
    /\ \A p \in Running :
          (/\ Ready(p)
           /\ role(peers[p].current_topology, p) = ProxyTail
           /\ IsSome(peers[p].voting_block_option)) =>
             LET tally == count_votes(peers[p])
             IN /\ \A i \in 1..Len(tally.peer_signatures) :
                      tally.peer_signatures[i].payload = VotingHash(peers[p])
                /\ tally.vote_count =
                      1 + Cardinality(CountedVoters(
                              peers[p].block_signature_acc,
                              VotingHash(peers[p]),
                              peers[p].current_topology))
    /\ \A it \in Iterations : Applicable(it) =>
          LET fr == Iteration(it)
              d == Unwrap(fr.dispatch)
              t == d.st.current_topology
          IN RoleIn(fr, {ProxyTail}) =>
               /\ Len(fr.st.block_signature_acc)
                     >= Len(d.st.block_signature_acc)
               /\ SubSeq(fr.st.block_signature_acc, 1,
                         Len(d.st.block_signature_acc))
                     = d.st.block_signature_acc
               /\ \A i \in 1..Len(Accumulated(it)) :
                     /\ Accumulated(it)[i][2].pk
                           \in RolePeers(t, Leader)
                                 \cup RolePeers(t, ValidatingPeer)
                     /\ Accumulated(it)[i][2].payload = Accumulated(it)[i][1]
                     /\ Accumulated(it)[i][1]
                           = BlockHash(revalidate(ReceivedBlock(fr), d.st.wsv))
               /\ (/\ Receives(fr, "BlockSigned")
                   /\ IsSome(d.st.voting_block_option)
                   /\ BlockHash(ReceivedBlock(fr)) # VotingHash(d.st))
                  => Accumulated(it) = <<>> /\ fr.commits = <<>>
               /\ fr.commits # <<>> =>
                     1 + Cardinality(CountedVoters(fr.st.block_signature_acc,
                                                   BlockHash(fr.commits[1]), t))
                       >= min_votes_for_commit(t)

(* a ProxyTail holds a voting block short of quorum while its accumulator  *)
(* holds a validating peer's signature on another block, taken before the *)
(* voting block was stored                                                 *)
C25_Witness ==
    \E p \in Running :
        /\ Ready(p)
        /\ role(peers[p].current_topology, p) = ProxyTail
        /\ IsSome(peers[p].voting_block_option)
        /\ \E i \in 1..Len(peers[p].block_signature_acc) :
              /\ peers[p].block_signature_acc[i][1] # VotingHash(peers[p])
              /\ peers[p].block_signature_acc[i][2].pk
                    \in Range(peers_set_a(peers[p].current_topology))
        /\ count_votes(peers[p]).vote_count
              < min_votes_for_commit(peers[p].current_topology)
        /\ Len(peers[p].block_signature_acc)
              >= min_votes_for_commit(peers[p].current_topology) - 1

-----------------------------------------------------------------------------
(* The Leader's block creation, checked on the transaction pipeline.       *)

(* the frame after the Leader handled its message, before its round *)
LeaderRoundStart(it) == leader_handle_message(Dispatched(it))

(* the iteration's Leader round stored a voting block or committed *)
Assembles(it) ==
    \/ Iteration(it).st.voting_block_option
          # LeaderRoundStart(it).st.voting_block_option
    \/ Len(Iteration(it).commits) > Len(LeaderRoundStart(it).commits)

AssembledBlock(it) ==
    LET fr == Iteration(it)
    IN IF IsSome(fr.st.voting_block_option)
       THEN Unwrap(fr.st.voting_block_option)
       ELSE fr.commits[Len(fr.commits)]

CachedTransactions(st) ==
    [i \in 1..Len(st.transaction_cache) |-> Unwrap(st.transaction_cache[i])]

(* seq keeps the order of the cached transactions *)
InCacheOrder(seq, cached) ==
    \E pos \in [1..Len(seq) -> 1..Len(cached)] :
        /\ \A i \in 1..Len(seq) : cached[pos[i]] = seq[i]
        /\ \A i, j \in 1..Len(seq) : i < j => pos[i] < pos[j]

CreationDue(st) ==
    /\ ~IsSome(st.voting_block_option)
    /\ st.transaction_cache # <<>>
    /\ \/ now > st.instant_when_we_should_create_a_block
       \/ Len(st.transaction_cache) >= st.queue.txs_in_block

(* C26: a Leader's iteration assembles a block exactly when, its message   *)
(* handled, it holds no voting block, its cache is not empty and the       *)
(* creation deadline has passed or the cache holds txs_in_block entries;   *)
(* the block                                                               *)
(* holds every cached transaction once, the valid and the rejected ones    *)
(* each in cache order, is chained to the latest height, hash and proof    *)
(* chain and carries the Leader's signature alone; with consensus it       *)
(* becomes the voting block, goes as BlockCreated to set A and arms the    *)
(* commit deadline; a Leader that holds a voting block keeps it and        *)
(* creates nothing.                                                        *)
C26_LeaderAssemblesBlock ==
    \A it \in Iterations : Applicable(it) =>
        LET fr == Iteration(it)
            d == Unwrap(fr.dispatch)
            mid == LeaderRoundStart(it)
            t == mid.st.current_topology
            cached == CachedTransactions(mid.st)
        IN RoleIn(fr, {Leader}) =>
             /\ Assembles(it) <=> CreationDue(mid.st)
             /\ Assembles(it) =>
                   LET block == AssembledBlock(it)
                   IN /\ Len(block.transactions)
                           + Len(block.rejected_transactions) = Len(cached)
                      /\ Range(block.transactions)
                           \cup Range(block.rejected_transactions)
                             = Range(cached)
                      /\ InCacheOrder(block.transactions, cached)
                      /\ InCacheOrder(block.rejected_transactions, cached)
                      /\ block.height = mid.st.latest_block_height + 1
                      /\ block.previous_block_hash = mid.st.latest_block_hash
                      /\ block.view_change_proofs
                            = mid.st.view_change_proof_chain
                      /\ block.signatures = {Sig(it.p, BlockHash(block))}
                      /\ is_consensus_required(t) =>
                            /\ fr.st.voting_block_option = Some(block)
                            /\ fr.commits = mid.commits
                            /\ HandlerOut(it) =
                                  [i \in 1..Len(peers_set_a(t)) |->
                                     Post(peers_set_a(t)[i],
                                          BlockCreated(block))]
                            /\ fr.st.instant_at_which_we_should_have_committed
                                  = now + commit_time
                      /\ ~is_consensus_required(t) =>
                            /\ fr.commits = Append(mid.commits, block)
                            /\ fr.st.latest_block_hash = BlockHash(block)
             /\ IsSome(d.st.voting_block_option) =>
                   /\ fr.st.voting_block_option = d.st.voting_block_option
                   /\ \A i \in 1..Len(HandlerOut(it)) :
                         HandlerOut(it)[i].msg.type # "BlockCreated"

(* a Leader among five peers proposes a block when the deadline has passed *)
(* with fewer than txs_in_block transactions cached                        *)
C26_Witness ==
    \E it \in Iterations :
        /\ Applicable(it)
        /\ RoleIn(Iteration(it), {Leader})
        /\ Assembles(it)
        /\ is_consensus_required(peers[it.p].current_topology)
        /\ Len(LeaderRoundStart(it).st.transaction_cache) < txs_in_block
        /\ now > LeaderRoundStart(it).st.instant_when_we_should_create_a_block

-----------------------------------------------------------------------------
(* The Leader's commit timeout, checked against the clock.                 *)

(* the steps before dispatch cleared the voting block for a new height or  *)
(* a new view                                                              *)
RoundReset(it) ==
    LET d == Unwrap(Iteration(it).dispatch)
    IN \/ peers[it.p].old_latest_block_height
            # peers[it.p].latest_block_height
       \/ peers[it.p].old_view_change_index # d.st.old_view_change_index

(* C27 as stated: a Leader holding a voting block suggests a view change   *)
(* only when the commit deadline is over, moves the deadline on by         *)
(* commit_time, and so cannot suggest again until the clock has advanced   *)
(* (at most one suggestion per commit_time interval); it keeps its voting  *)
(* block and keeps running.                                                *)
C27_LeaderSuggestsOncePerInterval ==
    \A it \in Iterations : Applicable(it) =>
        LET fr == Iteration(it)
            d == Unwrap(fr.dispatch)
        IN (RoleIn(fr, {Leader}) /\ HandlerSuggests(it)) =>
             /\ IsSome(d.st.voting_block_option)
             /\ now > d.st.instant_at_which_we_should_have_committed
             /\ fr.st.instant_at_which_we_should_have_committed
                   = d.st.instant_at_which_we_should_have_committed
                       + commit_time
             /\ fr.st.instant_at_which_we_should_have_committed >= now
             /\ fr.st.voting_block_option = d.st.voting_block_option
             /\ fr.st.pc = "main"

(* C27, amended: a Leader's handler suggests a view change exactly when it *)
(* holds a voting block and the commit deadline is over; each suggestion   *)
(* moves the deadline on by commit_time from the old deadline, not from    *)
(* the current time; the voting block is kept by the handler and dropped   *)
(* before dispatch only for a new height or a new view; the peer keeps     *)
(* running.                                                                *)
C27_LeaderSuggestsAfterDeadline ==
    \A it \in Iterations : Applicable(it) =>
        LET fr == Iteration(it)
            d == Unwrap(fr.dispatch)
        IN RoleIn(fr, {Leader}) =>
             /\ HandlerSuggests(it) <=>
                   /\ IsSome(d.st.voting_block_option)
                   /\ now > d.st.instant_at_which_we_should_have_committed
             /\ fr.st.instant_at_which_we_should_have_committed =
                   IF HandlerSuggests(it)
                   THEN d.st.instant_at_which_we_should_have_committed
                          + commit_time
                   ELSE IF Assembles(it) /\ IsSome(fr.st.voting_block_option)
                        THEN now + commit_time
                        ELSE d.st.instant_at_which_we_should_have_committed
             /\ IsSome(d.st.voting_block_option) =>
                   fr.st.voting_block_option = d.st.voting_block_option
             /\ (/\ IsSome(peers[it.p].voting_block_option)
                 /\ ~IsSome(d.st.voting_block_option)) => RoundReset(it)
             /\ fr.st.pc = "main"

(* a Leader that comes back to its loop more than commit_time after the    *)
(* deadline suggests a view change and is still behind the clock           *)
C27_Witness ==
    \E it \in Iterations :
        /\ Applicable(it)
        /\ RoleIn(Iteration(it), {Leader})
        /\ HandlerSuggests(it)
        /\ Iteration(it).st.instant_at_which_we_should_have_committed < now

-----------------------------------------------------------------------------
(* The liveness probe of a peer that is not the Leader.                    *)

(* A peer of five with a transaction that waits for signatures and two     *)
(* that do not in its queue, the clock, and the messages that end a        *)
(* round: a commit of the next block and a proof of a view change.         *)

ProbeMsgs(st) ==
    IF st.pc = "main" /\ st.latest_block_height < MaxHeight
    THEN {BlockCommitted(EnvSign(EnvBlocks(st).good,
                                 Range(sorted_peers(st.current_topology)),
                                 st)),
          ViewChangeSuggested(EnvChain(st))}
    ELSE {}

InitProbe ==
    \E p \in AllPeers :
        /\ peers = (p :> [from_configuration(p, AllPeers, Some(<<GenesisTx>>))
                            EXCEPT !.queue = queue_push_all(@, <<2, 1, 3>>,
                                                            Wsv(AllPeers))])
        /\ now = 0
        /\ expired = {}
        /\ net = {}

NextProbe ==
    \/ \E p \in Running : Start(p)
    \/ \E p \in Running : MainLoop(p)
    \/ \E p \in Running : ReceiveFrom(p, ProbeMsgs(peers[p]))
    \/ Tick(pipeline_time + MaxNow)

SpecProbe == InitProbe /\ [][NextProbe]_vars

(* the posts of the given type among those made before dispatch *)
PostedBeforeDispatch(out, type) ==
    {i \in 1..Len(out) : out[i].msg.type = type}

(* C28: a peer that is not the Leader forwards at most one transaction per *)
(* iteration, one of its cache that passes check_signature_condition, to   *)
(* the Leader, and only if has_sent_transactions was false or had just     *)
(* been reset for a new height or view; the forward sets                   *)
(* has_sent_transactions and the time sent, and neither the probe nor the  *)
(* role handler clears the flag, so there is one forward per round; the    *)
(* probe suggests a view change only if the flag was set and not reset and *)
(* more than pipeline_time has passed since the forward or the last        *)
(* suggestion, and restarts the timer; the Leader does neither.            *)
C28_OneForwardPerRound ==
    \A it \in Iterations : Applicable(it) =>
        LET fr == Iteration(it)
            d == Unwrap(fr.dispatch)
            s0 == peers[it.p]
            out == Dispatched(it).out
            forwards == PostedBeforeDispatch(out, "TransactionForwarded")
            suggests == PostedBeforeDispatch(out, "ViewChangeSuggested") # {}
            pending == s0.has_sent_transactions /\ ~RoundReset(it)
        IN /\ RoleIn(fr, {Leader}) => forwards = {} /\ ~suggests
           /\ ~RoleIn(fr, {Leader}) =>
                /\ Cardinality(forwards) <= 1
                /\ \A i \in forwards :
                      /\ out[i].to = leader(d.st.current_topology)
                      /\ out[i].msg.transaction
                            \in Range(CachedTransactions(d.st))
                      /\ check_signature_condition(out[i].msg.transaction,
                                                   d.st.wsv)
                      /\ out[i].msg.peer = it.p
                /\ forwards # {} =>
                      /\ ~pending
                      /\ d.st.has_sent_transactions
                      /\ d.st.sent_transaction_time = now
                      /\ ~suggests
                /\ pending => d.st.has_sent_transactions
                /\ suggests =>
                      /\ pending
                      /\ now - s0.sent_transaction_time > pipeline_time
                      /\ d.st.sent_transaction_time = now
                /\ (forwards = {} /\ ~suggests) =>
                      d.st.sent_transaction_time = s0.sent_transaction_time
                /\ fr.st.has_sent_transactions = d.st.has_sent_transactions
                /\ fr.st.sent_transaction_time = d.st.sent_transaction_time

(* a peer that forwarded a transaction more than pipeline_time ago, with   *)
(* a transaction still waiting for signatures in its cache, suggests a     *)
(* view change                                                             *)
C28_Witness ==
    \E it \in Iterations :
        /\ Applicable(it)
        /\ ~RoleIn(Iteration(it), {Leader})
        /\ PostedBeforeDispatch(Dispatched(it).out, "ViewChangeSuggested") # {}
        /\ peers[it.p].has_sent_transactions
        /\ \E tx \in Range(CachedTransactions(
                           Unwrap(Iteration(it).dispatch).st)) :
              ~check_signature_condition(
                   tx, Unwrap(Iteration(it).dispatch).st.wsv)

-----------------------------------------------------------------------------
(* The resets before dispatch.                                             *)

HeightChanged(st) == st.old_latest_block_height # st.latest_block_height

(* the probe of this iteration forwarded a transaction *)
Forwarded(it) ==
    PostedBeforeDispatch(Dispatched(it).out, "TransactionForwarded") # {}

(* C29: when the verified view-change index of an iteration differs from   *)
(* the recorded one, the peer reaches role dispatch with the topology      *)
(* rebuilt at the new index (same peers, same block, rotated), no voting   *)
(* block, an empty signature accumulator, the new index recorded, and      *)
(* has_sent_transactions set only if the probe of this very iteration      *)
(* forwarded; when neither the index nor the height changed, topology,     *)
(* voting block and accumulator reach dispatch as they were and            *)
(* has_sent_transactions is not cleared.                                   *)
C29_ViewChangeResetsRound ==
    \A it \in Iterations : Applicable(it) =>
        LET s0 == peers[it.p]
            mid == Dispatched(it)
            d == Unwrap(mid.dispatch)
            index == mid.current_view_change_index
            t0 == s0.current_topology
            t1 == d.st.current_topology
        IN /\ d.st.old_view_change_index = index
           /\ index # s0.old_view_change_index =>
                /\ t1 = rebuild_with_new_view_change_count(t0, index)
                /\ t1.view_change_count = index
                /\ Range(t1.sorted_peers) = Range(t0.sorted_peers)
                /\ t1.at_block = t0.at_block
                /\ ~IsSome(d.st.voting_block_option)
                /\ d.st.block_signature_acc = <<>>
                /\ d.st.has_sent_transactions <=> Forwarded(it)
           /\ (index = s0.old_view_change_index /\ ~HeightChanged(s0)) =>
                /\ t1 = t0
                /\ d.st.voting_block_option = s0.voting_block_option
                /\ d.st.block_signature_acc = s0.block_signature_acc
                /\ d.st.has_sent_transactions <=>
                      (s0.has_sent_transactions \/ Forwarded(it))

(* a peer that holds a voting block and a signature for it finds a new     *)
(* verified view-change index at an unchanged height                       *)
C29_Witness ==
    \E it \in Iterations :
        /\ Applicable(it)
        /\ Dispatched(it).current_view_change_index
              # peers[it.p].old_view_change_index
        /\ ~HeightChanged(peers[it.p])
        /\ IsSome(peers[it.p].voting_block_option)
        /\ peers[it.p].block_signature_acc # <<>>
        /\ Unwrap(Dispatched(it).dispatch).st.current_topology
              # peers[it.p].current_topology

(* C30: handlers never touch the recorded height, so a peer starts an      *)
(* iteration with a recorded height other than its latest exactly after a  *)
(* commit changed the height; that iteration reaches role dispatch with    *)
(* the new height recorded, no voting block, an empty accumulator, the     *)
(* creation deadline at now + block_time and has_sent_transactions set     *)
(* only by its own probe; nothing before dispatch commits; so whatever     *)
(* voting block or vote a handler finds was stored at the height the peer  *)
(* is at, and a block a ProxyTail commits on votes is the voting block of  *)
(* this height or the block received in this iteration.                    *)
C30_HeightChangeResetsRound ==
    \A it \in Iterations : Applicable(it) =>
        LET s0 == peers[it.p]
            fr == Iteration(it)
            d == Unwrap(fr.dispatch)
        IN /\ d.st.latest_block_height = s0.latest_block_height
           /\ d.st.old_latest_block_height = d.st.latest_block_height
           /\ fr.st.old_latest_block_height = d.st.old_latest_block_height
           /\ HeightChanged(fr.st) =>
                 /\ fr.commits # <<>>
                 /\ fr.st.latest_block_height
                       = fr.commits[Len(fr.commits)].height
           /\ HeightChanged(s0) =>
                 /\ ~IsSome(d.st.voting_block_option)
                 /\ d.st.block_signature_acc = <<>>
                 /\ d.st.has_sent_transactions <=> Forwarded(it)
                 /\ d.st.instant_when_we_should_create_a_block
                       = now + block_time
           /\ ~HeightChanged(s0) =>
                 d.st.instant_when_we_should_create_a_block
                   = s0.instant_when_we_should_create_a_block
           /\ (RoleIn(fr, {ProxyTail}) /\ fr.commits # <<>>) =>
                 \/ /\ IsSome(d.st.voting_block_option)
                    /\ BlockHash(fr.commits[1]) = VotingHash(d.st)
                 \/ /\ Receives(fr, "BlockCreated")
                    /\ BlockHash(fr.commits[1])
                          = BlockHash(revalidate(ReceivedBlock(fr), d.st.wsv))

(* a peer that committed a block above the genesis block starts its next   *)
(* iteration later than the deadline it had, still holding votes of the    *)
(* round and its has_sent_transactions flag                                *)
C30_Witness ==
    \E it \in Iterations :
        /\ Applicable(it)
        /\ HeightChanged(peers[it.p])
        /\ peers[it.p].latest_block_height > 1
        /\ peers[it.p].block_signature_acc # <<>>
        /\ peers[it.p].has_sent_transactions
        /\ now > peers[it.p].instant_when_we_should_create_a_block

-----------------------------------------------------------------------------
(* What block_commit leaves behind.                                        *)

(* C31: an iteration that commits leaves the private world state extended  *)
(* by the committed blocks and the public mirror equal to it, the latest   *)
(* height that of the last block committed, the latest hash its hash and   *)
(* the hash of the last block of the private world state, the block-sync   *)
(* mailbox holding that hash, the blocks handed to the store in order, and *)
(* the topology built at that hash with view-change count 0 over the       *)
(* peers of the world state; and in every state of a peer the mirror       *)
(* equals the private world state and the mailbox the latest hash.         *)
C31_CommitPublishesBlock ==
    /\ \A p \in Running :
          /\ peers[p].public_wsv = peers[p].wsv
          /\ peers[p].latest_block_hash_for_use_by_block_sync
                = peers[p].latest_block_hash
          /\ peers[p].kura = peers[p].wsv.blocks
          /\ peers[p].wsv.blocks # <<>> =>
                /\ peers[p].latest_block_hash
                      = wsv_latest_block_hash(peers[p].wsv)
                /\ peers[p].latest_block_height
                      = peers[p].wsv.blocks[Len(peers[p].wsv.blocks)].height
    /\ \A it \in Iterations : Applicable(it) =>
          LET fr == Iteration(it)
              d == Unwrap(fr.dispatch)
          IN fr.commits # <<>> =>
               LET block == fr.commits[Len(fr.commits)]
               IN /\ fr.st.wsv.blocks = d.st.wsv.blocks \o fr.commits
                  /\ fr.st.public_wsv = fr.st.wsv
                  /\ fr.st.latest_block_height = block.height
                  /\ fr.st.latest_block_hash = BlockHash(block)
                  /\ fr.st.latest_block_hash
                        = wsv_latest_block_hash(fr.st.wsv)
                  /\ fr.st.latest_block_hash_for_use_by_block_sync
                        = BlockHash(block)
                  /\ fr.st.kura = d.st.kura \o fr.commits
                  /\ fr.st.current_topology.at_block = BlockHash(block)
                  /\ fr.st.current_topology.view_change_count = 0
                  /\ Range(sorted_peers(fr.st.current_topology))
                        = fr.st.wsv.trusted_peers_ids

(* a peer commits a block on top of the genesis block *)
C31_Witness ==
    \E it \in Iterations :
        /\ Applicable(it)
        /\ Iteration(it).commits # <<>>
        /\ Iteration(it).st.latest_block_height = 2
        /\ Len(Iteration(it).st.public_wsv.blocks) = 2
        /\ Iteration(it).st.current_topology
              # Unwrap(Iteration(it).dispatch).st.current_topology

-----------------------------------------------------------------------------
(* Transaction gossip under every configured batch size: a peer of five    *)
(* whose cache holds up to MaxTxsInBlock transactions, clients that        *)
(* submit, the clock, and commits of the other peers.                      *)

MaxBatch == 2

InitGossip ==
    \E p \in AllPeers : \E size \in 0..MaxBatch :
        /\ peers = (p :> [from_configuration(p, AllPeers, Some(<<GenesisTx>>))
                            EXCEPT !.queue.txs_in_block = MaxTxsInBlock,
                                   !.gossip_batch_size = size])
        /\ now = 0
        /\ expired = {}
        /\ net = {}

NextGossip ==
    \/ \E p \in Running : Start(p)
    \/ \E p \in Running : MainLoop(p)
    \/ \E p \in Running : ReceiveFrom(p, CacheMsgs(peers[p]))
    \/ \E p \in Running : SubmitTransaction(p, Txs)
    \/ Tick(gossip_period + MaxNow)

SpecGossip == InitGossip /\ [][NextGossip]_vars

(* the cache as the gossip step of the iteration finds it *)
CacheAtGossip(it) ==
    CachedTransactions(
        refresh_transaction_cache(
            Frame([peers[it.p] EXCEPT !.should_sleep = FALSE])).st)

(* the gossip broadcasts of an iteration go to every peer of the topology, *)
(* carry a front of the cache in cache order, and are more than            *)
(* gossip_period after the previous one                                    *)
GossipWellFormed(it) ==
    LET out == Dispatched(it).out
        gossip == PostedBeforeDispatch(out, "TransactionGossip")
        t == peers[it.p].current_topology
        cached == CacheAtGossip(it)
    IN gossip # {} =>
         /\ \A i, j \in gossip : out[i].msg = out[j].msg
         /\ {out[i].to : i \in gossip} = Range(sorted_peers(t))
         /\ Cardinality(gossip) = Len(sorted_peers(t))
         /\ \A i \in gossip :
               /\ out[i].msg.txs # <<>>
               /\ Len(out[i].msg.txs) <= Len(cached)
               /\ out[i].msg.txs = SubSeq(cached, 1, Len(out[i].msg.txs))
         /\ now - peers[it.p].last_sent_transaction_gossip_time
               > gossip_period
         /\ Dispatched(it).st.last_sent_transaction_gossip_time = now

(* C32: every gossip broadcast carries at most gossip_batch_size           *)
(* transactions, for every configured batch size, 0 included, from the     *)
(* front of the cache in cache order, goes to every peer of the topology,  *)
(* and follows the previous one by more than gossip_period.                *)
C32_GossipBatchBounded ==
    \A it \in Iterations : Applicable(it) =>
        /\ GossipWellFormed(it)
        /\ \A i \in PostedBeforeDispatch(Dispatched(it).out,
                                          "TransactionGossip") :
              Len(Dispatched(it).out[i].msg.txs)
                <= peers[it.p].gossip_batch_size

-----------------------------------------------------------------------------
(* The message slot of an iteration.                                       *)

(* C33: an iteration takes the oldest message of the channel, or nothing   *)
(* from an empty channel, and nothing else; whatever it took, in whatever  *)
(* role and on whatever path the iteration ends, the slot                  *)
(* maybe_incoming_message is empty when the iteration ends, so the         *)
(* assertion before the next try_recv holds; the peer is still in its      *)
(* loop unless the ProxyTail's own assertion stopped it.                   *)
C33_MessageConsumedInIteration ==
    \A it \in Iterations : Applicable(it) =>
        LET s0 == peers[it.p]
            fr == Iteration(it)
        IN /\ ~IsSome(fr.maybe_incoming_message)
           /\ IF s0.incoming = <<>>
              THEN /\ fr.st.incoming = <<>>
                   /\ ~IsSome(fr.received)
                   /\ ~IsSome(Unwrap(fr.dispatch).msg)
              ELSE /\ fr.st.incoming = Tail(s0.incoming)
                   /\ fr.received = Some(Head(s0.incoming))
                   /\ IsSome(Unwrap(fr.dispatch).msg) =>
                         Unwrap(fr.dispatch).msg = fr.received

(* a ProxyTail that holds a voting block takes a BlockSigned for another   *)
(* block and ends the iteration by `continue`                              *)
C33_Witness ==
    \E it \in Iterations :
        /\ Applicable(it)
        /\ RoleIn(Iteration(it), {ProxyTail})
        /\ Receives(Iteration(it), "BlockSigned")
        /\ IsSome(Unwrap(Iteration(it).dispatch).st.voting_block_option)
        /\ BlockHash(ReceivedBlock(Iteration(it)))
              # BlockHash(Unwrap(Unwrap(Iteration(it).dispatch)
                                   .st.voting_block_option))
        /\ peers[it.p].incoming # <<>>

-----------------------------------------------------------------------------
(* The proofs a message carries.                                           *)

(* the local chain after each proof of the message was offered to it in    *)
(* order, then pruned to the latest hash                                   *)
ChainOffered(st, msg) ==
    prune(insert_proofs(st.view_change_proof_chain,
                        Range(sorted_peers(st.current_topology)),
                        max_faults(st.current_topology),
                        st.latest_block_hash,
                        ForeignProofChain(msg)),
          st.latest_block_hash)

(* the message carries a proof that alone moves a peer at index 0 on *)
CarriesQuorumProof(st, msg) ==
    /\ ForeignProofChain(msg) # <<>>
    /\ ForeignProofChain(msg)[1].latest_block_hash = st.latest_block_hash
    /\ ForeignProofChain(msg)[1].view_change_index = 0
    /\ proof_verify(ForeignProofChain(msg)[1],
                    Range(sorted_peers(st.current_topology)),
                    max_faults(st.current_topology))

(* C34: whatever message an iteration receives, in whatever role, the      *)
(* view-change index it verifies before dispatch is the one of the local   *)
(* chain after every proof the message carries was offered to it, and the  *)
(* chain at dispatch is that chain unless the probe added the peer's own   *)
(* suspicion; a quorum proof for index 0 carried by any message but a      *)
(* gossip moves a peer from index 0 to at least 1 before dispatch;         *)
(* TransactionGossip and ViewChangeSuggested never reach a role handler,   *)
(* every other message does.                                               *)
C34_CarriedProofsOffered ==
    \A it \in Iterations : Applicable(it) =>
        LET s0 == peers[it.p]
            mid == Dispatched(it)
            d == Unwrap(mid.dispatch)
            peer_list == Range(sorted_peers(s0.current_topology))
            f == max_faults(s0.current_topology)
        IN IF IsSome(mid.received)
           THEN LET msg == Unwrap(mid.received)
                    offered == ChainOffered(s0, msg)
                IN /\ mid.current_view_change_index
                         = verify_with_state(offered, peer_list, f,
                                             s0.latest_block_hash)
                   /\ PostedBeforeDispatch(mid.out, "ViewChangeSuggested")
                         = {} => d.st.view_change_proof_chain = offered
                   /\ (/\ CarriesQuorumProof(s0, msg)
                       /\ verify_with_state(
                              prune(s0.view_change_proof_chain,
                                    s0.latest_block_hash),
                              peer_list, f, s0.latest_block_hash) = 0)
                      => mid.current_view_change_index >= 1
                   /\ d.msg =
                        IF msg.type \in {"TransactionGossip",
                                         "ViewChangeSuggested"}
                        THEN None ELSE Some(msg)
           ELSE /\ ~IsSome(d.msg)
                /\ mid.current_view_change_index
                      = verify_with_state(
                            prune(s0.view_change_proof_chain,
                                  s0.latest_block_hash),
                            peer_list, f, s0.latest_block_hash)

(* a peer at index 0 takes a block message that its role handler does not  *)
(* commit or vote for and whose header carries a quorum proof, and         *)
(* reaches dispatch at index 1                                             *)
C34_Witness ==
    \E it \in Iterations :
        /\ Applicable(it)
        /\ IsSome(Dispatched(it).received)
        /\ Unwrap(Dispatched(it).received).type
              \in {"BlockCreated", "BlockSigned", "BlockCommitted"}
        /\ CarriesQuorumProof(peers[it.p], Unwrap(Dispatched(it).received))
        /\ peers[it.p].old_view_change_index = 0
        /\ Dispatched(it).current_view_change_index = 1
        /\ Iteration(it).commits = <<>>
        /\ HandlerOut(it) = <<>>

-----------------------------------------------------------------------------
(* Shutdown: the node sends the one-shot signal at any moment of the       *)
(* thread's life; the other peers send a genesis block or commits, clients *)
(* submit.                                                                 *)

ShutdownMsgs(st) ==
    IF st.pc = "main" THEN CacheMsgs(st) ELSE EnvGenesisMsgs(st)

NextShutdown ==
    \/ \E p \in Running : Start(p)
    \/ \E p \in Running : ListenForGenesis(p)
    \/ \E p \in Running : MainLoop(p)
    \/ \E p \in Running : ReceiveFrom(p, ShutdownMsgs(peers[p]))
    \/ \E p \in Running : SubmitTransaction(p, {1})
    \/ \E p \in Running : Shutdown(p)

(* the iteration that finds the signal *)
StopStep(p) == p \in Running /\ peers[p].shutdown /\ MainLoop(p)

(* every iteration terminates and the thread is scheduled again *)
FairShutdown == \A p \in AllPeers : WF_vars(StopStep(p))

SpecShutdown == Init /\ [][NextShutdown]_vars /\ FairShutdown

Signalled(p) ==
    p \in Running /\ peers[p].shutdown /\ peers[p].pc = "main"

Stopped(p) == p \in Running /\ peers[p].pc = "stopped"

(* what the consensus thread owns: all of the peer but the channel, the    *)
(* queue and the signal, which other threads write                         *)
ThreadState(st) ==
    [st EXCEPT !.incoming = <<>>, !.queue = EmptyQueue, !.shutdown = FALSE,
               !.pc = "main"]

(* C35: from the moment the loop is between two iterations with the signal *)
(* sent, the only step of the thread is the return: the channel is never   *)
(* read again (it can only grow), nothing is posted, nothing is committed  *)
(* and no local of the loop changes; and the thread does return.           *)
C35_ShutdownStopsLoop ==
    /\ [][\A p \in AllPeers : (Signalled(p) \/ Stopped(p)) =>
            /\ peers'[p].pc \in {peers[p].pc, "stopped"}
            /\ ThreadState(peers'[p]) = ThreadState(peers[p])
            /\ Len(peers'[p].incoming) >= Len(peers[p].incoming)
            /\ SubSeq(peers'[p].incoming, 1, Len(peers[p].incoming))
                  = peers[p].incoming
            /\ net' = net]_vars
    /\ \A p \in AllPeers : Signalled(p) ~> Stopped(p)

(* a peer has stopped with a message left in its channel and a transaction *)
(* left in its cache                                                       *)
C35_Witness ==
    \E p \in Running :
        /\ peers[p].pc = "stopped"
        /\ peers[p].shutdown
        /\ peers[p].incoming # <<>>
        /\ peers[p].transaction_cache # <<>>

(* the step the thread takes next while it is in its initialisation phase *)
InitStep(st) ==
    IF st.pc = "start" THEN start_main_loop(st) ELSE listen_for_genesis(st)

(* C36: by whatever path the initialisation phase ends (the genesis block  *)
(* published locally, received in the wait, or the wait left on shutdown), *)
(* the assertions that follow it hold: the peer is in its loop with        *)
(* latest_block_height >= 1 and latest_block_hash the hash of the world    *)
(* state's latest block; and every peer in the loop has height >= 1.       *)
C36_InitAssertionsHold ==
    \A p \in Running :
        /\ peers[p].pc \in {"start", "listen"} =>
              LET fr == InitStep(peers[p])
              IN fr.st.pc \notin {"start", "listen"} =>
                   /\ fr.st.pc = "main"
                   /\ fr.st.latest_block_height >= 1
                   /\ fr.st.latest_block_hash
                         = wsv_latest_block_hash(fr.st.wsv)
        /\ peers[p].pc \in {"main", "stopped"} =>
              peers[p].latest_block_height >= 1

-----------------------------------------------------------------------------
(* One vote of a ValidatingPeer per round, fault.rs:814-927 *)

(* positions of the BlockSigned posts of the role handler *)
SignedPosts(it) ==
    {i \in 1..Len(HandlerOut(it)) : HandlerOut(it)[i].msg.type = "BlockSigned"}

(* C37: a ValidatingPeer posts at most one BlockSigned in an iteration,    *)
(* only when it holds no voting block, only to the ProxyTail of its        *)
(* topology, and holds the block it signed as voting block afterwards; a   *)
(* voting block it holds is neither dropped nor replaced by its handler,   *)
(* and reaches the next dispatch unless the height or the verified         *)
(* view-change index changed: so it signs once per (height, index).        *)
C37_OneVotePerRound ==
    \A it \in Iterations : Applicable(it) =>
        LET s0 == peers[it.p]
            mid == Dispatched(it)
            fr == Iteration(it)
            d == Unwrap(fr.dispatch)
            out == HandlerOut(it)
        IN /\ (/\ IsSome(s0.voting_block_option)
               /\ ~HeightChanged(s0)
               /\ mid.current_view_change_index = s0.old_view_change_index)
              => d.st.voting_block_option = s0.voting_block_option
           /\ d.role = ValidatingPeer =>
                /\ Cardinality(SignedPosts(it)) <= 1
                /\ \A i \in SignedPosts(it) :
                      /\ out[i].to = proxy_tail(fr.st.current_topology)
                      /\ out[i].to = proxy_tail(d.st.current_topology)
                      /\ ~IsSome(d.st.voting_block_option)
                      /\ IsSome(fr.st.voting_block_option)
                      /\ BlockHash(Unwrap(fr.st.voting_block_option))
                            = BlockHash(out[i].msg.block)
                      /\ fr.st.latest_block_height = d.st.latest_block_height
                      /\ fr.st.old_view_change_index
                            = d.st.old_view_change_index
                /\ IsSome(d.st.voting_block_option) =>
                      fr.st.voting_block_option = d.st.voting_block_option

(* a ValidatingPeer that holds a voting block receives a BlockCreated with *)
(* another block, signed by the Leader, which would pass validation        *)
C37_Witness ==
    \E it \in Iterations :
        /\ Applicable(it)
        /\ LET fr == Iteration(it)
               d == Unwrap(fr.dispatch)
           IN /\ RoleIn(fr, {ValidatingPeer})
              /\ Receives(fr, "BlockCreated")
              /\ IsSome(d.st.voting_block_option)
              /\ BlockHash(ReceivedBlock(fr))
                    # BlockHash(Unwrap(d.st.voting_block_option))
              /\ LeaderSigned(fr)
              /\ ~FailsValidation(fr)
              /\ PostedSignatures(it.p) # {}

-----------------------------------------------------------------------------
(* Readers of the shared state (block sync, queries: mod.rs:174-243)       *)
(* against the writes of block_commit.  block_commit applies the block to  *)
(* the private world state, then takes the mutex of the public mirror,     *)
(* then the mutex of the mailbox (fault.rs:239-269), so a reader thread    *)
(* can run between the two writes: here the commit is split at them.  What *)
(* the consensus thread alone owns is invisible to a reader and is written *)
(* at once.                                                                *)

(* commit_pc: where block_commit stands; reader_*: the locals of a reader  *)
(* thread; committed_wsvs: the private world state as it was at start and  *)
(* after each commit                                                       *)
ReaderLocals(st) ==
    [commit_pc |-> "idle", reader_pc |-> "idle", reader_hash |-> ZeroHash,
     reader_wsv |-> st.public_wsv, committed_wsvs |-> {st.wsv}]

InitReader ==
    \E p \in AllPeers : \E genesis \in GenesisOptions :
        /\ peers = (p :> LET st == from_configuration(p, AllPeers, genesis)
                         IN st @@ ReaderLocals(st))
        /\ now = 0
        /\ expired = {}
        /\ net = {}

(* one step of the consensus thread: initialisation, one pass of the       *)
(* genesis wait or one iteration of the loop                               *)
thread_step(st, pick) ==
    IF st.pc = "start" THEN start_main_loop(st)
    ELSE IF st.pc = "listen" THEN listen_for_genesis(st)
    ELSE main_loop_iteration(st, pick)

(* block_commit up to wsv.apply, fault.rs:239-242: the private state is    *)
(* written, the mirror and the mailbox are as `st` had them                *)
block_commit_applied(st, fr) ==
    [fr EXCEPT !.st = [fr.st EXCEPT
        !.public_wsv = st.public_wsv,
        !.latest_block_hash_for_use_by_block_sync =
            st.latest_block_hash_for_use_by_block_sync,
        !.commit_pc = "applied",
        !.committed_wsvs = @ \cup {fr.st.wsv}]]

(* Seeded fault: the mailbox is written before the public mirror *)
block_commit_step_mailbox_first(st) ==
    IF st.commit_pc = "applied"
    THEN [st EXCEPT !.latest_block_hash_for_use_by_block_sync =
                        st.latest_block_hash,
                    !.commit_pc = "published"]
    ELSE [st EXCEPT !.public_wsv = st.wsv, !.commit_pc = "idle"]

(* the next write of shared state of block_commit: the public mirror,      *)
(* fault.rs:243-250, then the mailbox, fault.rs:262-269                    *)
block_commit_step(st) ==
    IF st.commit_pc = "applied"
    THEN [st EXCEPT !.public_wsv = st.wsv, !.commit_pc = "published"]
    ELSE [st EXCEPT !.latest_block_hash_for_use_by_block_sync =
                        st.latest_block_hash,
                    !.commit_pc = "idle"]

RunThread(p) ==
    /\ peers[p].pc \in {"start", "listen", "main"}
    /\ peers[p].commit_pc = "idle"
    /\ \E pick \in PickSlots(peers[p]) :
          LET fr == thread_step(peers[p], pick)
          IN Step(p, IF fr.commits = <<>> THEN fr
                     ELSE block_commit_applied(peers[p], fr))

CommitStep(p) ==
    /\ peers[p].commit_pc # "idle"
    /\ peers' = [peers EXCEPT ![p] = block_commit_step(@)]
    /\ UNCHANGED <<now, expired, net>>

(* Sumeragi::latest_block_hash_for_use_by_block_sync, mod.rs:174-183 *)
ReadHash(p) ==
    /\ peers[p].reader_pc = "idle"
    /\ peers' = [peers EXCEPT
                   ![p].reader_hash =
                       peers[p].latest_block_hash_for_use_by_block_sync,
                   ![p].reader_pc = "hash"]
    /\ UNCHANGED <<now, expired, net>>

(* Sumeragi::blocks_after_hash and the queries, mod.rs:185-243: the reader *)
(* holds the mutex of the public mirror and sees it whole                  *)
ReadWsv(p) ==
    /\ peers[p].reader_pc = "hash"
    /\ peers' = [peers EXCEPT ![p].reader_wsv = peers[p].public_wsv,
                              ![p].reader_pc = "blocks"]
    /\ UNCHANGED <<now, expired, net>>

ReaderDone(p) ==
    /\ peers[p].reader_pc = "blocks"
    /\ peers' = [peers EXCEPT ![p].reader_pc = "idle"]
    /\ UNCHANGED <<now, expired, net>>

NextReader ==
    \/ \E p \in Running : RunThread(p)
    \/ \E p \in Running : CommitStep(p)
    \/ \E p \in Running : ReceiveFrom(p, ShutdownMsgs(peers[p]))
    \/ \E p \in Running : ReadHash(p)
    \/ \E p \in Running : ReadWsv(p)
    \/ \E p \in Running : ReaderDone(p)

SpecReader == InitReader /\ [][NextReader]_vars

(* the hash is the zero hash or the hash of a block of the world state *)
KnownTo(wsv, hash) ==
    \/ hash = ZeroHash
    \/ \E i \in 1..Len(wsv.blocks) : BlockHash(wsv.blocks[i]) = hash

(* C38: at every point of the interleaving of a reader with the commit,    *)
(* the mailbox holds the zero hash or the hash of a block of the public    *)
(* mirror, and so does the hash a reader has read, against the mirror as   *)
(* it is and against the mirror the reader locks after reading the hash;   *)
(* the mirror, and what a reader sees of it, is the private world state as *)
(* it was at start or after a complete commit; between commits the mirror  *)
(* equals the private world state and the mailbox its latest hash.         *)
C38_ReadersSeeCommittedState ==
    \A p \in Running :
        LET st == peers[p]
        IN /\ KnownTo(st.public_wsv, st.latest_block_hash_for_use_by_block_sync)
           /\ st.reader_pc # "idle" => KnownTo(st.public_wsv, st.reader_hash)
           /\ st.reader_pc = "blocks" => KnownTo(st.reader_wsv, st.reader_hash)
           /\ st.public_wsv \in st.committed_wsvs
           /\ st.reader_wsv \in st.committed_wsvs
           /\ st.wsv \in st.committed_wsvs
           /\ st.commit_pc = "applied" => st.public_wsv # st.wsv
           /\ st.commit_pc = "idle" =>
                /\ st.public_wsv = st.wsv
                /\ st.latest_block_hash_for_use_by_block_sync
                      = st.latest_block_hash

(* a reader reads the old hash between the two writes of the second        *)
(* commit: the mirror already holds the new block, the mailbox not yet     *)
C38_Witness ==
    \E p \in Running :
        /\ peers[p].commit_pc = "published"
        /\ peers[p].reader_pc = "hash"
        /\ peers[p].reader_hash # ZeroHash
        /\ peers[p].reader_hash # wsv_latest_block_hash(peers[p].public_wsv)
        /\ peers[p].latest_block_height = 2

-----------------------------------------------------------------------------
(* connect_peers, fault.rs:185-219.  A peer id is an address with a public *)
(* key; the online list is what the network subsystem last handed to       *)
(* update_online_peers (mod.rs:275-284), in any order, with or without     *)
(* repetitions.                                                            *)

NumAddresses == 2
NumKeys == 2
MaxOnline == 3

PeerId(address, public_key) ==
    [address |-> address, public_key |-> public_key]

(* the peers a topology or an online list can name; the last address and   *)
(* the last key belong to a stranger no topology holds                     *)
TopologyPeerIds ==
    {PeerId(a, k) : a \in 1..NumAddresses, k \in 1..NumKeys}

OnlinePeerIds ==
    TopologyPeerIds \cup {PeerId(NumAddresses + 1, NumKeys + 1)}

PeerIdOrder(id) == id.address * (NumKeys + 2) + id.public_key

RECURSIVE PeerIdSeq(_)
PeerIdSeq(S) ==
    IF S = {} THEN <<>>
    ELSE LET first == CHOOSE id \in S :
                        \A other \in S : PeerIdOrder(id) <= PeerIdOrder(other)
         IN <<first>> \o PeerIdSeq(S \ {first})

(* get_online_peer_keys, fault.rs:145-155 *)
get_online_peer_keys(st) ==
    [i \in 1..Len(st.current_online_peers) |->
        st.current_online_peers[i].public_key]

(* peers_expected before the shuffle, fault.rs:188-190 *)
peers_expected(st) ==
    LET other(id) == id.address # st.peer_id.address
    IN SelectSeq(sorted_peers(st.current_topology), other)

(* the orders res.shuffle can leave, fault.rs:191 *)
Shuffles(seq) ==
    {[i \in 1..Len(seq) |-> seq[f[i]]] : f \in Permutations(1..Len(seq))}

ConnectPeer(peer) == [type |-> "ConnectPeer", peer |-> peer]

DisconnectPeer(public_key) ==
    [type |-> "DisconnectPeer", public_key |-> public_key]

Contains(seq, x) == \E i \in 1..Len(seq) : seq[i] = x

(* iter().position, then Vec::remove: the first occurrence goes *)
RemoveFirst(seq, x) ==
    LET index == CHOOSE i \in 1..Len(seq) :
                    seq[i] = x /\ \A j \in 1..(i - 1) : seq[j] # x
    IN SubSeq(seq, 1, index - 1) \o SubSeq(seq, index + 1, Len(seq))

RemoveAll(seq, x) == LET differs(y) == y # x IN SelectSeq(seq, differs)

(* Seeded fault: every occurrence of a matched key leaves the list *)
RECURSIVE connect_loop_by_set(_, _, _, _)
connect_loop_by_set(expected, i, keys, sent) ==
    IF i > Len(expected) THEN [keys |-> keys, sent |-> sent]
    ELSE IF Contains(keys, expected[i].public_key)
    THEN connect_loop_by_set(expected, i + 1,
                             RemoveAll(keys, expected[i].public_key), sent)
    ELSE connect_loop_by_set(expected, i + 1, keys,
                             Append(sent, ConnectPeer(expected[i])))

(* the loop over peers_expected, fault.rs:197-211 *)
RECURSIVE connect_loop(_, _, _, _)
connect_loop(expected, i, keys, sent) ==
    IF i > Len(expected) THEN [keys |-> keys, sent |-> sent]
    ELSE IF Contains(keys, expected[i].public_key)
    THEN connect_loop(expected, i + 1,
                      RemoveFirst(keys, expected[i].public_key), sent)
    ELSE connect_loop(expected, i + 1, keys,
                      Append(sent, ConnectPeer(expected[i])))

(* Seeded fault: connect_peers over connect_loop_by_set *)
connect_peers_by_set(st, shuffled) ==
    LET done == connect_loop_by_set(shuffled, 1, get_online_peer_keys(st),
                                    <<>>)
    IN done.sent \o [i \in 1..Len(done.keys) |-> DisconnectPeer(done.keys[i])]

(* connect_peers, fault.rs:185-219: what it hands to the broker, in order, *)
(* when the shuffle leaves peers_expected as `shuffled`                    *)
connect_peers(st, shuffled) ==
    LET done == connect_loop(shuffled, 1, get_online_peer_keys(st), <<>>)
    IN done.sent \o [i \in 1..Len(done.keys) |-> DisconnectPeer(done.keys[i])]

OnlineLists ==
    UNION {[1..n -> OnlinePeerIds] : n \in 0..MaxOnline}

InitConnect ==
    \E id \in TopologyPeerIds : \E T \in SUBSET TopologyPeerIds \ {{}} :
        /\ peers = (id.address :>
                      [peer_id |-> id,
                       current_topology |-> [sorted_peers |-> PeerIdSeq(T)],
                       current_online_peers |-> <<>>,
                       issued |-> <<>>])
        /\ now = 0
        /\ expired = {}
        /\ net = {}

(* Sumeragi::update_online_peers, mod.rs:275-284 *)
update_online_peers(p, online_peers) ==
    /\ peers' = [peers EXCEPT ![p].current_online_peers = online_peers]
    /\ UNCHANGED <<now, expired, net>>

(* a call of connect_peers; `issued` keeps what the call sent *)
ConnectPeers(p) ==
    /\ \E shuffled \in Shuffles(peers_expected(peers[p])) :
          peers' = [peers EXCEPT ![p].issued =
                       connect_peers(peers[p], shuffled)]
    /\ UNCHANGED <<now, expired, net>>

NextConnect ==
    \/ \E p \in Running : \E l \in OnlineLists : update_online_peers(p, l)
    \/ \E p \in Running : ConnectPeers(p)

SpecConnect == InitConnect /\ [][NextConnect]_vars

(* the calls connect_peers can make from the state of a peer *)
Calls(st) == {connect_peers(st, s) : s \in Shuffles(peers_expected(st))}

Connects(out, id) ==
    Cardinality({i \in 1..Len(out) : out[i] = ConnectPeer(id)})

ConnectsByKey(out, k) ==
    Cardinality({i \in 1..Len(out) :
        out[i].type = "ConnectPeer" /\ out[i].peer.public_key = k})

Disconnects(out, k) ==
    Cardinality({i \in 1..Len(out) : out[i] = DisconnectPeer(k)})

Occurrences(seq, x) == Cardinality({i \in 1..Len(seq) : seq[i] = x})

ExpectedWithKey(st, k) ==
    {id \in Range(peers_expected(st)) : id.public_key = k}

Monus(a, b) == IF a > b THEN a - b ELSE 0

(* no two expected peers share a key and no key is online twice *)
KeysUnique(st) ==
    /\ \A k \in 1..(NumKeys + 1) :
          /\ Cardinality(ExpectedWithKey(st, k)) <= 1
          /\ Occurrences(get_online_peer_keys(st), k) <= 1

(* the statement of C39 about one call *)
ConnectsExactlyMissing(st, out) ==
    LET online == Range(get_online_peer_keys(st))
        expected == Range(peers_expected(st))
    IN /\ \A id \in OnlinePeerIds :
            Connects(out, id) =
                (IF id \in expected /\ id.public_key \notin online
                 THEN 1 ELSE 0)
       /\ \A k \in 1..(NumKeys + 1) :
            Disconnects(out, k) > 0 =>
                /\ k \in online
                /\ ExpectedWithKey(st, k) = {}
       /\ \A i \in 1..Len(out) :
            out[i].type = "ConnectPeer" =>
                out[i].peer.address # st.peer_id.address

-----------------------------------------------------------------------------
(* The ProxyTail and BlockCommitted, fault.rs:955-1140 *)

(* a commit role would commit the block: quorum of the topology's          *)
(* signatures on it and the peer's latest hash as its parent               *)
Committable(st, block) ==
    /\ Cardinality(filter_signatures_by_roles(st.current_topology, AllRoles,
                                              verified_signatures(block)))
          >= min_votes_for_commit(st.current_topology)
    /\ st.latest_block_hash = block.previous_block_hash

(* C40: in an iteration a peer runs as ProxyTail nothing is committed      *)
(* before the role dispatch, the height moves only with a commit, and a    *)
(* commit is of the peer's voting block, with the peer's signature and a   *)
(* quorum of signatures, broadcast as BlockCommitted; when the message of  *)
(* the iteration is a BlockCommitted, the peer commits if and only if it   *)
(* held a voting block with a quorum of its own count at dispatch, and     *)
(* then that voting block: the received block is not looked at.            *)
C40_ProxyTailCommitsOnlyOwnQuorum ==
    \A it \in Iterations : Applicable(it) =>
        LET s0 == peers[it.p]
            mid == Dispatched(it)
            fr == Iteration(it)
            d == Unwrap(fr.dispatch)
            t == d.st.current_topology
            out == HandlerOut(it)
        IN d.role = ProxyTail =>
             /\ mid.commits = <<>>
             /\ d.st.latest_block_height = s0.latest_block_height
             /\ fr.commits = <<>> =>
                   /\ fr.st.latest_block_height = d.st.latest_block_height
                   /\ fr.st.latest_block_hash = d.st.latest_block_hash
                   /\ fr.st.wsv = d.st.wsv
             /\ fr.commits # <<>> =>
                   LET block == fr.commits[1]
                       voting == proxy_tail_handle_message(mid).fr.st
                   IN /\ Len(fr.commits) = 1
                      /\ IsSome(voting.voting_block_option)
                      /\ BlockHash(block) = VotingHash(voting)
                      /\ Sig(it.p, BlockHash(block)) \in block.signatures
                      /\ Cardinality(filter_signatures_by_roles(
                              t, AllRoles, verified_signatures(block)))
                            >= min_votes_for_commit(t)
                      /\ \A q \in Range(sorted_peers(t)) :
                            \E i \in 1..Len(out) :
                                out[i] = Post(q, BlockCommitted(block))
                      /\ fr.st.latest_block_height
                            = d.st.latest_block_height + 1
             /\ Receives(fr, "BlockCommitted") =>
                   /\ fr.commits # <<>> <=>
                         /\ IsSome(d.st.voting_block_option)
                         /\ count_votes(d.st).vote_count
                               >= min_votes_for_commit(t)
                   /\ fr.commits # <<>> =>
                         BlockHash(fr.commits[1]) = VotingHash(d.st)
                   /\ fr.st.block_signature_acc = d.st.block_signature_acc

(* a ProxyTail receives a BlockCommitted which a validating peer in its    *)
(* place would commit, and commits nothing                                 *)
C40_Witness ==
    \E it \in Iterations :
        /\ Applicable(it)
        /\ LET fr == Iteration(it)
               d == Unwrap(fr.dispatch)
           IN /\ RoleIn(fr, {ProxyTail})
              /\ Receives(fr, "BlockCommitted")
              /\ Committable(d.st, ReceivedBlock(fr))
              /\ fr.commits = <<>>
              /\ fr.st.latest_block_height = d.st.latest_block_height

=============================================================================
